---------------------------- MODULE Spec2Model ----------------------------
(***************************************************************************)
(* A model of the password generator (package main): charset construction, *)
(* the generation loop over the secure random source, configuration        *)
(* validation, the policy engine and the command line flow of main().      *)
(*                                                                         *)
(* Strings are sequences of one-character strings.  An error value is its  *)
(* message; nil is the absent error.                                       *)
(***************************************************************************)
EXTENDS Integers, Sequences, FiniteSets, TLC

(***************************************************************************)
(* Bounds of the model.                                                    *)
(***************************************************************************)
\* largest length requested on the command line or by a direct caller
MaxLen == 2
\* number of distinct values the random source may yield for one range
NumDraws == 3
\* the random source repeats its values after this many draws of one call
Period == 2
\* largest -count / -c value and configured default count
MaxCount == 2

(***************************************************************************)
(* main.go: the fixed alphabets.                                           *)
(***************************************************************************)
LowerCase ==
    <<"a", "b", "c", "d", "e", "f", "g", "h", "i", "j", "k", "l", "m",
      "n", "o", "p", "q", "r", "s", "t", "u", "v", "w", "x", "y", "z">>

UpperCase ==
    <<"A", "B", "C", "D", "E", "F", "G", "H", "I", "J", "K", "L", "M",
      "N", "O", "P", "Q", "R", "S", "T", "U", "V", "W", "X", "Y", "Z">>

Digits ==
    <<"0", "1", "2", "3", "4", "5", "6", "7", "8", "9">>

\* Symbols with one character more, the tilde
Symbols_withTilde ==
    <<"!", "@", "#", "$", "%", "^", "&", "*", "(", ")", "_", "+", "-",
      "=", "[", "]", "{", "}", "|", ";", ":", ",", ".", "<", ">", "?", "~">>

Symbols ==
    <<"!", "@", "#", "$", "%", "^", "&", "*", "(", ")", "_", "+", "-",
      "=", "[", "]", "{", "}", "|", ";", ":", ",", ".", "<", ">", "?">>

\* mutant: every digit counts as ambiguous
Ambiguous_everyDigit ==
    <<"0", "1", "2", "3", "4", "5", "6", "7", "8", "9", "O", "l", "I">>

Ambiguous ==
    <<"0", "O", "1", "l", "I">>

\* the absent error
nil == "nil"

\* the zero byte a fresh []byte holds
NUL == "\\x00"

(***************************************************************************)
(* String helpers of the Go library, on sequences of characters.           *)
(***************************************************************************)
Chars(s) == {s[x] : x \in 1..Len(s)}

\* strings.ReplaceAll(s, old, "") for a one-character old
RemoveAll(s, old) == SelectSeq(s, LAMBDA c : c # old)

\* strings.ContainsRune(s, r)
ContainsRune(s, r) == \E x \in 1..Len(s) : s[x] = r

(***************************************************************************)
(* PasswordConfig and buildCharset.                                        *)
(***************************************************************************)
PasswordConfig(len, upper, lower, digits, symbols, noAmbiguous) ==
    [Length |-> len, IncludeUpper |-> upper, IncludeLower |-> lower,
     IncludeDigits |-> digits, IncludeSymbols |-> symbols,
     ExcludeAmbiguous |-> noAmbiguous]

\* the loop of buildCharset over the characters of Ambiguous, from position x
RECURSIVE StripAmbiguous(_, _)
StripAmbiguous(result, x) ==
    IF x > Len(Ambiguous) THEN result
    ELSE StripAmbiguous(RemoveAll(result, Ambiguous[x]), x + 1)

\* mutant: the ambiguous characters are never removed
buildCharset_keepsAmbiguous(config) ==
    (IF config.IncludeLower THEN LowerCase ELSE <<>>)
      \o (IF config.IncludeUpper THEN UpperCase ELSE <<>>)
      \o (IF config.IncludeDigits THEN Digits ELSE <<>>)
      \o (IF config.IncludeSymbols THEN Symbols ELSE <<>>)

\* mutant: the upper case letters are written before the lower case ones
buildCharset_upperFirst(config) ==
    LET result ==
          (IF config.IncludeUpper THEN UpperCase ELSE <<>>)
            \o (IF config.IncludeLower THEN LowerCase ELSE <<>>)
            \o (IF config.IncludeDigits THEN Digits ELSE <<>>)
            \o (IF config.IncludeSymbols THEN Symbols ELSE <<>>)
    IN  IF config.ExcludeAmbiguous THEN StripAmbiguous(result, 1) ELSE result

buildCharset(config) ==
    LET result ==
          (IF config.IncludeLower THEN LowerCase ELSE <<>>)
            \o (IF config.IncludeUpper THEN UpperCase ELSE <<>>)
            \o (IF config.IncludeDigits THEN Digits ELSE <<>>)
            \o (IF config.IncludeSymbols THEN Symbols ELSE <<>>)
    IN  IF config.ExcludeAmbiguous THEN StripAmbiguous(result, 1) ELSE result

(***************************************************************************)
(* validateConfig: the error it returns, or nil.                           *)
(***************************************************************************)
\* mutant: the character types are checked before the length
validateConfig_classFirst(config) ==
    IF ~config.IncludeUpper /\ ~config.IncludeLower
         /\ ~config.IncludeDigits /\ ~config.IncludeSymbols
    THEN "at least one character type must be enabled"
    ELSE IF config.Length < 1
         THEN "password length must be at least 1"
         ELSE nil

validateConfig(config) ==
    IF config.Length < 1
    THEN "password length must be at least 1"
    ELSE IF ~config.IncludeUpper /\ ~config.IncludeLower
              /\ ~config.IncludeDigits /\ ~config.IncludeSymbols
         THEN "at least one character type must be enabled"
         ELSE nil

(***************************************************************************)
(* More of the Go string library.                                          *)
(***************************************************************************)
\* mutant: only a prefix of s is compared
Contains_prefixOnly(s, substr) ==
    Len(substr) <= Len(s) /\ SubSeq(s, 1, Len(substr)) = substr

\* strings.Contains(s, substr)
Contains(s, substr) ==
    \E x \in 0..(Len(s) - Len(substr)) : SubSeq(s, x + 1, x + Len(substr)) = substr

\* unicode.ToLower on one ASCII character
ToLowerChar(c) ==
    IF \E x \in 1..Len(UpperCase) : UpperCase[x] = c
    THEN LowerCase[CHOOSE x \in 1..Len(UpperCase) : UpperCase[x] = c]
    ELSE c

\* mutant: the case of the letters is kept
ToLower_keepsCase(s) == s

\* strings.ToLower(s)
ToLower(s) == [x \in 1..Len(s) |-> ToLowerChar(s[x])]

\* strings.ReplaceAll(s, old, new) for one-character old and new
ReplaceAll(s, old, new) == [x \in 1..Len(s) |-> IF s[x] = old THEN new ELSE s[x]]

\* reverseString(s)
reverseString(s) == [x \in 1..Len(s) |-> s[Len(s) + 1 - x]]

\* regexp.MustCompile(pattern) matching one character, for the four
\* character classes the program uses
MatchesClass(c, pattern) ==
    CASE pattern = "[a-z]" -> c \in Chars(LowerCase)
      [] pattern = "[A-Z]" -> c \in Chars(UpperCase)
      [] pattern = "[0-9]" -> c \in Chars(Digits)
      [] pattern = "[^a-zA-Z0-9]" ->
             c \notin (Chars(LowerCase) \cup Chars(UpperCase) \cup Chars(Digits))

\* regexp.MustCompile(pattern).MatchString(s)
MatchString(pattern, s) == \E x \in 1..Len(s) : MatchesClass(s[x], pattern)

\* countMatches(text, pattern)
countMatches(text, pattern) ==
    Cardinality({x \in 1..Len(text) : MatchesClass(text[x], pattern)})

(***************************************************************************)
(* The pattern detectors of the strength analyzer.                         *)
(***************************************************************************)
hasRepeatedChars(pw) ==
    \E x \in 0..(Len(pw) - 3) : pw[x + 1] = pw[x + 2] /\ pw[x + 2] = pw[x + 3]

sequences ==
    <<<<"a", "b", "c", "d", "e", "f", "g", "h", "i", "j", "k", "l", "m", "n", "o", "p", "q", "r", "s", "t", "u", "v", "w", "x", "y", "z">>,
      <<"A", "B", "C", "D", "E", "F", "G", "H", "I", "J", "K", "L", "M", "N", "O", "P", "Q", "R", "S", "T", "U", "V", "W", "X", "Y", "Z">>,
      <<"0", "1", "2", "3", "4", "5", "6", "7", "8", "9">>,
      <<"q", "w", "e", "r", "t", "y", "u", "i", "o", "p">>,
      <<"a", "s", "d", "f", "g", "h", "j", "k", "l">>,
      <<"z", "x", "c", "v", "b", "n", "m">>,
      <<"Q", "W", "E", "R", "T", "Y", "U", "I", "O", "P">>,
      <<"A", "S", "D", "F", "G", "H", "J", "K", "L">>,
      <<"Z", "X", "C", "V", "B", "N", "M">>>>

hasSequentialChars(pw) ==
    LET lower == ToLower(pw)
    IN  \/ \E q \in 1..Len(sequences) :
             \E x \in 0..(Len(sequences[q]) - 3) :
                Contains(lower, SubSeq(sequences[q], x + 1, x + 3))
        \/ \E q \in 1..Len(sequences) :
             LET reversed == reverseString(sequences[q])
             IN  \E x \in 0..(Len(reversed) - 3) :
                    Contains(lower, SubSeq(reversed, x + 1, x + 3))

commonPatterns ==
    <<<<"p", "a", "s", "s", "w", "o", "r", "d">>,
      <<"1", "2", "3", "4", "5", "6">>,
      <<"q", "w", "e", "r", "t", "y">>,
      <<"a", "d", "m", "i", "n">>,
      <<"l", "o", "g", "i", "n">>,
      <<"w", "e", "l", "c", "o", "m", "e">>,
      <<"m", "o", "n", "k", "e", "y">>,
      <<"d", "r", "a", "g", "o", "n">>,
      <<"m", "a", "s", "t", "e", "r">>,
      <<"s", "h", "a", "d", "o", "w">>,
      <<"l", "e", "t", "m", "e", "i", "n">>,
      <<"f", "o", "o", "t", "b", "a", "l", "l">>,
      <<"i", "l", "o", "v", "e", "y", "o", "u">>,
      <<"s", "u", "n", "s", "h", "i", "n", "e">>,
      <<"p", "r", "i", "n", "c", "e", "s", "s">>>>

\* the substitutions map of hasCommonPatterns: symbol -> letter
\* mutant: @ is replaced by 3, which another entry replaces by e
substitutions_chained ==
    <<<<"@", "3">>, <<"3", "e">>, <<"1", "i">>, <<"0", "o">>, <<"5", "s">>,
      <<"7", "t">>>>

substitutions ==
    <<<<"@", "a">>, <<"3", "e">>, <<"1", "i">>, <<"0", "o">>, <<"5", "s">>,
      <<"7", "t">>>>

\* the loop over the map, visiting its entries in the order mapOrder (Go
\* leaves the iteration order of a map unspecified)
RECURSIVE Normalize(_, _, _)
Normalize(normalized, mapOrder, x) ==
    IF x > Len(mapOrder) THEN normalized
    ELSE Normalize(ReplaceAll(normalized, substitutions[mapOrder[x]][1],
                              substitutions[mapOrder[x]][2]),
                   mapOrder, x + 1)

hasCommonPatterns(pw, mapOrder) ==
    LET lower == ToLower(pw)
        normalized == Normalize(lower, mapOrder, 1)
    IN  \/ \E q \in 1..Len(commonPatterns) : Contains(lower, commonPatterns[q])
        \/ \E q \in 1..Len(commonPatterns) : Contains(normalized, commonPatterns[q])

(***************************************************************************)
(* calculateEntropy.  The float64 result is kept in fixed point: the value *)
(* is the entropy in units of 1/EntropyUnit bits.  math.Log2 of the eleven *)
(* possible character spaces is tabulated to three decimals, which keeps   *)
(* passwords of up to 300 characters within the integers of the checker    *)
(* and every comparison with a threshold of the code as the float64 gives  *)
(* it; the penalty factors 0.8, 0.7 and 0.6 are exact in these units.      *)
(***************************************************************************)
EntropyUnit == 1000 * 1000

Bits(n) == n * EntropyUnit

\* 1000 * math.Log2(charSpace), rounded
Log2x1000(charSpace) ==
    CASE charSpace = 10 -> 3322
      [] charSpace = 26 -> 4700
      [] charSpace = 32 -> 5000
      [] charSpace = 36 -> 5170
      [] charSpace = 42 -> 5392
      [] charSpace = 52 -> 5700
      [] charSpace = 58 -> 5858
      [] charSpace = 62 -> 5954
      [] charSpace = 68 -> 6087
      [] charSpace = 84 -> 6392
      [] charSpace = 94 -> 6555

\* mutant: the symbols add nothing to the character space
calculateEntropy_noSymbolSpace(pw, mapOrder) ==
    LET charSpace ==
          (IF MatchString("[a-z]", pw) THEN 26 ELSE 0)
            + (IF MatchString("[A-Z]", pw) THEN 26 ELSE 0)
            + (IF MatchString("[0-9]", pw) THEN 10 ELSE 0)
    IN  IF charSpace = 0 THEN 0
        ELSE Len(pw) * Log2x1000(charSpace)
               * (IF hasRepeatedChars(pw) THEN 8 ELSE 10)
               * (IF hasSequentialChars(pw) THEN 7 ELSE 10)
               * (IF hasCommonPatterns(pw, mapOrder) THEN 6 ELSE 10)

\* mutant: of the penalties that apply only the heaviest is taken
calculateEntropy_heaviestPenaltyOnly(pw, mapOrder) ==
    LET charSpace ==
          (IF MatchString("[a-z]", pw) THEN 26 ELSE 0)
            + (IF MatchString("[A-Z]", pw) THEN 26 ELSE 0)
            + (IF MatchString("[0-9]", pw) THEN 10 ELSE 0)
            + (IF MatchString("[^a-zA-Z0-9]", pw) THEN 32 ELSE 0)
    IN  IF charSpace = 0 THEN 0
        ELSE Len(pw) * Log2x1000(charSpace) * 100
               * (IF hasCommonPatterns(pw, mapOrder) THEN 6
                  ELSE IF hasSequentialChars(pw) THEN 7
                  ELSE IF hasRepeatedChars(pw) THEN 8 ELSE 10)

calculateEntropy(pw, mapOrder) ==
    LET charSpace ==
          (IF MatchString("[a-z]", pw) THEN 26 ELSE 0)
            + (IF MatchString("[A-Z]", pw) THEN 26 ELSE 0)
            + (IF MatchString("[0-9]", pw) THEN 10 ELSE 0)
            + (IF MatchString("[^a-zA-Z0-9]", pw) THEN 32 ELSE 0)
    IN  IF charSpace = 0 THEN 0
        ELSE Len(pw) * Log2x1000(charSpace)
               * (IF hasRepeatedChars(pw) THEN 8 ELSE 10)
               * (IF hasSequentialChars(pw) THEN 7 ELSE 10)
               * (IF hasCommonPatterns(pw, mapOrder) THEN 6 ELSE 10)

(***************************************************************************)
(* The strength analyzer.  TimeToCrack, which needs 2^entropy, is not part *)
(* of the PasswordStrength record here; formatDuration is modelled apart.  *)
(***************************************************************************)
VeryWeak == 0
Weak == 1
Fair == 2
Good == 3
Strong == 4
VeryStrong == 5

\* mutant: a score on a threshold stays in the lower level
getStrengthLevel_inclusive(score) ==
    CASE score <= 20 -> VeryWeak
      [] score > 20 /\ score <= 40 -> Weak
      [] score > 40 /\ score <= 60 -> Fair
      [] score > 60 /\ score <= 80 -> Good
      [] score > 80 /\ score <= 95 -> Strong
      [] OTHER -> VeryStrong

getStrengthLevel(score) ==
    IF score < 20 THEN VeryWeak
    ELSE IF score < 40 THEN Weak
    ELSE IF score < 60 THEN Fair
    ELSE IF score < 80 THEN Good
    ELSE IF score < 95 THEN Strong
    ELSE VeryStrong

\* lines 68-151: the score before it is brought within bounds, and the
\* feedback accumulated with it
ScoreAndFeedback(pw, mapOrder) ==
    LET length == Len(pw)
        hasLower == MatchString("[a-z]", pw)
        hasUpper == MatchString("[A-Z]", pw)
        hasDigit == MatchString("[0-9]", pw)
        hasSymbol == MatchString("[^a-zA-Z0-9]", pw)
        varietyCount ==
          (IF hasLower THEN 1 ELSE 0) + (IF hasUpper THEN 1 ELSE 0)
            + (IF hasDigit THEN 1 ELSE 0) + (IF hasSymbol THEN 1 ELSE 0)
        repeated == hasRepeatedChars(pw)
        sequential == hasSequentialChars(pw)
        common == hasCommonPatterns(pw, mapOrder)
        entropy == calculateEntropy(pw, mapOrder)
        Say(cond, text) == IF cond THEN <<text>> ELSE <<>>
    IN  [score |->
           (IF length < 8 THEN 0
            ELSE IF length < 12 THEN 10
            ELSE IF length < 16 THEN 20 ELSE 30)
             + (IF hasLower THEN 10 ELSE 0)
             + (IF hasUpper THEN 10 ELSE 0)
             + (IF hasDigit THEN 10 ELSE 0)
             + (IF hasSymbol THEN 15 ELSE 0)
             + (IF varietyCount = 4 THEN 10 ELSE 0)
             - (IF repeated THEN 10 ELSE 0)
             - (IF sequential THEN 15 ELSE 0)
             - (IF common THEN 20 ELSE 0)
             + (IF entropy >= Bits(60) THEN 20
                ELSE IF entropy >= Bits(40) THEN 10
                ELSE IF entropy < Bits(25) THEN -15 ELSE 0),
         feedback |->
           Say(length < 8, "Use at least 8 characters")
             \o Say(length >= 8 /\ length < 12,
                    "Consider using 12+ characters for better security")
             \o Say(~hasLower, "Add lowercase letters")
             \o Say(~hasUpper, "Add uppercase letters")
             \o Say(~hasDigit, "Add numbers")
             \o Say(~hasSymbol, "Add symbols (!@#$%^&*)")
             \o Say(repeated, "Avoid repeated characters")
             \o Say(sequential, "Avoid sequential characters (abc, 123)")
             \o Say(common, "Avoid common patterns")
             \o Say(entropy < Bits(25), "Password is too predictable"),
         entropy |-> entropy]

\* mutant: a score above 100 is returned as it is
AnalyzePasswordStrength_noUpperClamp(pw, mapOrder) ==
    LET raw == ScoreAndFeedback(pw, mapOrder)
        score == IF raw.score < 0 THEN 0 ELSE raw.score
    IN  [Score |-> score,
         Level |-> getStrengthLevel(score),
         Entropy |-> raw.entropy,
         Feedback |->
           IF score >= 80 /\ raw.feedback = <<>>
           THEN <<"Excellent password strength!">> ELSE raw.feedback]

\* mutant: the positive message is appended to any feedback of a score of
\* 80 or more
AnalyzePasswordStrength_praisesHighScore(pw, mapOrder) ==
    LET raw == ScoreAndFeedback(pw, mapOrder)
        score == IF raw.score < 0 THEN 0
                 ELSE IF raw.score > 100 THEN 100 ELSE raw.score
    IN  [Score |-> score,
         Level |-> getStrengthLevel(score),
         Entropy |-> raw.entropy,
         Feedback |->
           IF score >= 80
           THEN raw.feedback \o <<"Excellent password strength!">>
           ELSE raw.feedback]

AnalyzePasswordStrength(pw, mapOrder) ==
    LET raw == ScoreAndFeedback(pw, mapOrder)
        score == IF raw.score < 0 THEN 0
                 ELSE IF raw.score > 100 THEN 100 ELSE raw.score
    IN  [Score |-> score,
         Level |-> getStrengthLevel(score),
         Entropy |-> raw.entropy,
         Feedback |->
           IF score >= 80 /\ raw.feedback = <<>>
           THEN <<"Excellent password strength!">> ELSE raw.feedback]

(***************************************************************************)
(* formatDuration.  A duration is h half seconds times 1000^e, which holds *)
(* the values around every breakpoint within the integers of the checker;  *)
(* the text is the rounded number and the unit ("Instant" carries 0).      *)
(***************************************************************************)
\* 31536000 seconds, in half seconds
Year == 63072000

Scale(e) == CASE e = 0 -> 1 [] e = 1 -> 1000 [] e = 2 -> 1000000 [] e = 3 -> 1000000000

Duration(h, e) == [half |-> h, e |-> e]

\* seconds < b * 1000^j, for b in half seconds
Below(seconds, b, j) ==
    IF seconds.e = j THEN seconds.half < b
    ELSE IF seconds.e < j THEN seconds.half \div Scale(j - seconds.e) < b
    ELSE seconds.half < ((b - 1) \div Scale(seconds.e - j)) + 1

\* mutant: the quotient is truncated
RoundDiv_truncates(x, d) == x \div d

\* fmt's %.0f of x / d: the nearest integer, the even one of two
RoundDiv(x, d) ==
    LET q == x \div d
        r == x % d
    IN  IF 2 * r < d THEN q
        ELSE IF 2 * r > d THEN q + 1
        ELSE IF q % 2 = 0 THEN q ELSE q + 1

\* %.0f of seconds / (d / 2) for a duration below a year
Quotient(seconds, d) == RoundDiv(seconds.half * Scale(seconds.e), d)

\* %.0f of seconds / (31536000 * 1000^j) for a duration below 1000^(j+1)
\* years, or any duration when j = 3 (no duration h * 1000^e with e < j is
\* that long)
YearsQuotient(seconds, j) ==
    IF seconds.e = j THEN RoundDiv(seconds.half, Year)
    ELSE IF seconds.e > j
    THEN RoundDiv(seconds.half * Scale(seconds.e - j - 1), Year \div 1000)
    ELSE 0

formatDuration(seconds) ==
    IF Below(seconds, 2, 0) THEN [N |-> 0, unit |-> "Instant"]
    ELSE IF Below(seconds, 120, 0)
    THEN [N |-> Quotient(seconds, 2), unit |-> "seconds"]
    ELSE IF Below(seconds, 7200, 0)
    THEN [N |-> Quotient(seconds, 120), unit |-> "minutes"]
    ELSE IF Below(seconds, 172800, 0)
    THEN [N |-> Quotient(seconds, 7200), unit |-> "hours"]
    ELSE IF Below(seconds, Year, 0)
    THEN [N |-> Quotient(seconds, 172800), unit |-> "days"]
    ELSE IF Below(seconds, Year, 1)
    THEN [N |-> YearsQuotient(seconds, 0), unit |-> "years"]
    ELSE IF Below(seconds, Year, 2)
    THEN [N |-> YearsQuotient(seconds, 1), unit |-> "thousand years"]
    ELSE IF Below(seconds, Year, 3)
    THEN [N |-> YearsQuotient(seconds, 2), unit |-> "million years"]
    ELSE [N |-> YearsQuotient(seconds, 3), unit |-> "billion years"]

\* the passwords of the policy tests, as character sequences
MYSECURE1 == <<"M", "y", "S", "e", "c", "u", "r", "e", "1">>

PASS1 == <<"P", "a", "s", "s", "1">>

MYSECURE == <<"M", "y", "S", "e", "c", "u", "r", "e">>

WEAK123 == <<"w", "e", "a", "k", "1", "2", "3">>

MYCORP == <<"M", "y", "C", "2", "r", "p", "2", "r", "@", "t", "e", "!", "S", "e", "c", "u", "r", "e">>

PASSW0RD == <<"P", "@", "s", "s", "w", "0", "r", "d">>

TESTPASSWORD ==
    <<"T", "e", "s", "t", "P", "a", "s", "s", "w", "o", "r", "d", "1", "2", "3", "!">>

(***************************************************************************)
(* The policy engine.                                                      *)
(***************************************************************************)
\* the zero value of PasswordPolicy
ZeroPolicy ==
    [Name |-> "", MinLength |-> 0, MaxLength |-> 0,
     RequireUpper |-> FALSE, RequireLower |-> FALSE,
     RequireDigits |-> FALSE, RequireSymbols |-> FALSE,
     MinUpper |-> 0, MinLower |-> 0, MinDigits |-> 0, MinSymbols |-> 0,
     ExcludeAmbiguous |-> FALSE, ForbiddenChars |-> <<>>,
     ForbiddenPatterns |-> <<>>, MinEntropy |-> 0]

BuiltinPolicies ==
    ("basic" :>
        [Name |-> "Basic Security",
         MinLength |-> 8, MaxLength |-> 0,
         RequireUpper |-> TRUE, RequireLower |-> TRUE,
         RequireDigits |-> TRUE, RequireSymbols |-> FALSE,
         MinUpper |-> 1, MinLower |-> 1, MinDigits |-> 1,
         MinSymbols |-> 0,
         ExcludeAmbiguous |-> FALSE,
         ForbiddenChars |-> <<>>,
         ForbiddenPatterns |->
            <<<<"p", "a", "s", "s", "w", "o", "r", "d">>,
              <<"1", "2", "3", "4", "5", "6">>,
              <<"q", "w", "e", "r", "t", "y">>>>,
         MinEntropy |-> 25])
      @@ ("corporate" :>
        [Name |-> "Corporate Standard",
         MinLength |-> 12, MaxLength |-> 0,
         RequireUpper |-> TRUE, RequireLower |-> TRUE,
         RequireDigits |-> TRUE, RequireSymbols |-> TRUE,
         MinUpper |-> 2, MinLower |-> 2, MinDigits |-> 2,
         MinSymbols |-> 1,
         ExcludeAmbiguous |-> TRUE,
         ForbiddenChars |-> <<>>,
         ForbiddenPatterns |->
            <<<<"p", "a", "s", "s", "w", "o", "r", "d">>,
              <<"1", "2", "3", "4", "5", "6">>,
              <<"q", "w", "e", "r", "t", "y">>,
              <<"a", "d", "m", "i", "n">>,
              <<"l", "o", "g", "i", "n">>,
              <<"w", "e", "l", "c", "o", "m", "e">>>>,
         MinEntropy |-> 40])
      @@ ("high-security" :>
        [Name |-> "High Security",
         MinLength |-> 16, MaxLength |-> 0,
         RequireUpper |-> TRUE, RequireLower |-> TRUE,
         RequireDigits |-> TRUE, RequireSymbols |-> TRUE,
         MinUpper |-> 3, MinLower |-> 3, MinDigits |-> 3,
         MinSymbols |-> 2,
         ExcludeAmbiguous |-> TRUE,
         ForbiddenChars |-> <<>>,
         ForbiddenPatterns |->
            <<<<"p", "a", "s", "s", "w", "o", "r", "d">>,
              <<"1", "2", "3", "4", "5", "6">>,
              <<"q", "w", "e", "r", "t", "y">>,
              <<"a", "d", "m", "i", "n">>,
              <<"l", "o", "g", "i", "n">>,
              <<"w", "e", "l", "c", "o", "m", "e">>,
              <<"l", "e", "t", "m", "e", "i", "n">>,
              <<"m", "o", "n", "k", "e", "y">>,
              <<"d", "r", "a", "g", "o", "n">>,
              <<"m", "a", "s", "t", "e", "r">>,
              <<"s", "h", "a", "d", "o", "w">>,
              <<"f", "o", "o", "t", "b", "a", "l", "l">>>>,
         MinEntropy |-> 60])
      @@ ("aws" :>
        [Name |-> "AWS IAM Policy",
         MinLength |-> 8, MaxLength |-> 128,
         RequireUpper |-> TRUE, RequireLower |-> TRUE,
         RequireDigits |-> TRUE, RequireSymbols |-> TRUE,
         MinUpper |-> 1, MinLower |-> 1, MinDigits |-> 1,
         MinSymbols |-> 1,
         ExcludeAmbiguous |-> FALSE,
         ForbiddenChars |-> <<>>,
         ForbiddenPatterns |->
            <<>>,
         MinEntropy |-> 30])
      @@ ("azure" :>
        [Name |-> "Azure AD Policy",
         MinLength |-> 8, MaxLength |-> 256,
         RequireUpper |-> TRUE, RequireLower |-> TRUE,
         RequireDigits |-> TRUE, RequireSymbols |-> TRUE,
         MinUpper |-> 1, MinLower |-> 1, MinDigits |-> 1,
         MinSymbols |-> 1,
         ExcludeAmbiguous |-> FALSE,
         ForbiddenChars |-> <<>>,
         ForbiddenPatterns |->
            <<>>,
         MinEntropy |-> 35])
      @@ ("pci-dss" :>
        [Name |-> "PCI DSS Compliant",
         MinLength |-> 7, MaxLength |-> 0,
         RequireUpper |-> TRUE, RequireLower |-> TRUE,
         RequireDigits |-> TRUE, RequireSymbols |-> FALSE,
         MinUpper |-> 1, MinLower |-> 1, MinDigits |-> 1,
         MinSymbols |-> 0,
         ExcludeAmbiguous |-> FALSE,
         ForbiddenChars |-> <<>>,
         ForbiddenPatterns |->
            <<>>,
         MinEntropy |-> 28])

\* GetPolicy with an unknown name falling back to the basic policy
GetPolicy_defaultsToBasic(name) ==
    IF name \in DOMAIN BuiltinPolicies
    THEN [policy |-> BuiltinPolicies[name], err |-> nil]
    ELSE [policy |-> BuiltinPolicies["basic"], err |-> nil]

\* GetPolicy(name): the policy and the error
GetPolicy(name) ==
    IF name \in DOMAIN BuiltinPolicies
    THEN [policy |-> BuiltinPolicies[name], err |-> nil]
    ELSE [policy |-> ZeroPolicy, err |-> "policy not found"]

\* the keys of BuiltinPolicies, in the order of the map literal
PolicyNames ==
    <<"basic", "corporate", "high-security", "aws", "azure", "pci-dss">>

\* the orders in which range may iterate over BuiltinPolicies
RangeOrders ==
    {order \in [1..Len(PolicyNames) -> 1..Len(PolicyNames)] :
       \A x, y \in 1..Len(PolicyNames) : x # y => order[x] # order[y]}

\* ListPolicies(), with the iteration order range picked
ListPolicies(order) == [x \in 1..Len(PolicyNames) |-> PolicyNames[order[x]]]

\* one PolicyViolation: its rule, and the text its description names (the
\* forbidden character or pattern, the ambiguous set; empty for the rules
\* whose description only repeats a number of the policy)
Violation(rule, what) == [Rule |-> rule, What |-> what]

\* the violations each of the fourteen checks appends, in the order of the
\* source
PolicyChecks(pw, policy, mapOrder) ==
    LET upperCount == countMatches(pw, "[A-Z]")
        lowerCount == countMatches(pw, "[a-z]")
        digitCount == countMatches(pw, "[0-9]")
        symbolCount == countMatches(pw, "[^a-zA-Z0-9]")
        When(cond, rule, what) == IF cond THEN <<Violation(rule, what)>> ELSE <<>>
        lower == ToLower(pw)
        \* the elements a loop over the policy's list appends a violation for
        badChars == SelectSeq(policy.ForbiddenChars,
                              LAMBDA char : ContainsRune(pw, char))
        badPatterns == SelectSeq(policy.ForbiddenPatterns,
                                 LAMBDA pattern : Contains(lower, ToLower(pattern)))
    IN  << When(Len(pw) < policy.MinLength, "MinLength", <<>>),
           When(policy.MaxLength > 0 /\ Len(pw) > policy.MaxLength,
                "MaxLength", <<>>),
           When(policy.RequireUpper /\ upperCount = 0, "RequireUpper", <<>>),
           When(policy.RequireLower /\ lowerCount = 0, "RequireLower", <<>>),
           When(policy.RequireDigits /\ digitCount = 0, "RequireDigits", <<>>),
           When(policy.RequireSymbols /\ symbolCount = 0, "RequireSymbols", <<>>),
           When(upperCount < policy.MinUpper, "MinUpper", <<>>),
           When(lowerCount < policy.MinLower, "MinLower", <<>>),
           When(digitCount < policy.MinDigits, "MinDigits", <<>>),
           When(symbolCount < policy.MinSymbols, "MinSymbols", <<>>),
           When(policy.ExcludeAmbiguous
                  /\ \E x \in 1..Len(Ambiguous) : ContainsRune(pw, Ambiguous[x]),
                "ExcludeAmbiguous", Ambiguous),
           IF policy.ForbiddenChars # <<>>
           THEN [x \in 1..Len(badChars) |->
                   Violation("ForbiddenChars", <<badChars[x]>>)]
           ELSE <<>>,
           [x \in 1..Len(badPatterns) |->
              Violation("ForbiddenPatterns", badPatterns[x])],
           When(policy.MinEntropy > 0
                  /\ calculateEntropy(pw, mapOrder) < Bits(policy.MinEntropy),
                "MinEntropy", <<>>) >>

\* the slice the appends of checks[from..] build
RECURSIVE Appended(_, _)
Appended(checks, from) ==
    IF from > Len(checks) THEN <<>>
    ELSE checks[from] \o Appended(checks, from + 1)

\* mutant: a password as long as MinLength is reported too short
ValidatePasswordAgainstPolicy_minLengthStrict(pw, policy, mapOrder) ==
    (IF Len(pw) <= policy.MinLength
     THEN <<Violation("MinLength", <<>>)>> ELSE <<>>)
      \o Appended(PolicyChecks(pw, policy, mapOrder), 2)

\* mutant: the validation stops at the first violation
ValidatePasswordAgainstPolicy_stopsAtFirst(pw, policy, mapOrder) ==
    LET all == Appended(PolicyChecks(pw, policy, mapOrder), 1)
    IN  IF all = <<>> THEN <<>> ELSE <<all[1]>>

ValidatePasswordAgainstPolicy(pw, policy, mapOrder) ==
    Appended(PolicyChecks(pw, policy, mapOrder), 1)

\* mutant: the symbols are not enabled when the policy requires them
ApplyPolicyToConfig_skipsSymbols(policy, config) ==
    LET c1 == IF config.Length < policy.MinLength
              THEN [config EXCEPT !.Length = policy.MinLength] ELSE config
        c2 == IF policy.MaxLength > 0 /\ c1.Length > policy.MaxLength
              THEN [c1 EXCEPT !.Length = policy.MaxLength] ELSE c1
    IN  [c2 EXCEPT
           !.IncludeUpper = IF policy.RequireUpper THEN TRUE ELSE @,
           !.IncludeLower = IF policy.RequireLower THEN TRUE ELSE @,
           !.IncludeDigits = IF policy.RequireDigits THEN TRUE ELSE @,
           !.ExcludeAmbiguous = IF policy.ExcludeAmbiguous THEN TRUE ELSE @]

\* mutant: the flags are assigned from the policy, not only enabled
ApplyPolicyToConfig_assignsFlags(policy, config) ==
    LET c1 == IF config.Length < policy.MinLength
              THEN [config EXCEPT !.Length = policy.MinLength] ELSE config
        c2 == IF policy.MaxLength > 0 /\ c1.Length > policy.MaxLength
              THEN [c1 EXCEPT !.Length = policy.MaxLength] ELSE c1
    IN  [c2 EXCEPT
           !.IncludeUpper = policy.RequireUpper,
           !.IncludeLower = policy.RequireLower,
           !.IncludeDigits = policy.RequireDigits,
           !.IncludeSymbols = policy.RequireSymbols,
           !.ExcludeAmbiguous = policy.ExcludeAmbiguous]

\* mutant: the length is never cut to the policy's maximum
ApplyPolicyToConfig_neverCaps(policy, config) ==
    LET c1 == IF config.Length < policy.MinLength
              THEN [config EXCEPT !.Length = policy.MinLength] ELSE config
    IN  [c1 EXCEPT
           !.IncludeUpper = IF policy.RequireUpper THEN TRUE ELSE @,
           !.IncludeLower = IF policy.RequireLower THEN TRUE ELSE @,
           !.IncludeDigits = IF policy.RequireDigits THEN TRUE ELSE @,
           !.IncludeSymbols = IF policy.RequireSymbols THEN TRUE ELSE @,
           !.ExcludeAmbiguous = IF policy.ExcludeAmbiguous THEN TRUE ELSE @]

ApplyPolicyToConfig(policy, config) ==
    LET c1 == IF config.Length < policy.MinLength
              THEN [config EXCEPT !.Length = policy.MinLength] ELSE config
        c2 == IF policy.MaxLength > 0 /\ c1.Length > policy.MaxLength
              THEN [c1 EXCEPT !.Length = policy.MaxLength] ELSE c1
    IN  [c2 EXCEPT
           !.IncludeUpper = IF policy.RequireUpper THEN TRUE ELSE @,
           !.IncludeLower = IF policy.RequireLower THEN TRUE ELSE @,
           !.IncludeDigits = IF policy.RequireDigits THEN TRUE ELSE @,
           !.IncludeSymbols = IF policy.RequireSymbols THEN TRUE ELSE @,
           !.ExcludeAmbiguous = IF policy.ExcludeAmbiguous THEN TRUE ELSE @]

(***************************************************************************)
(* config.go: Config, DefaultConfig and ToPasswordConfig.                  *)
(***************************************************************************)
DefaultConfig ==
    [Length |-> 12, IncludeUpper |-> TRUE, IncludeLower |-> TRUE,
     IncludeDigits |-> TRUE, IncludeSymbols |-> FALSE,
     ExcludeAmbiguous |-> FALSE, Count |-> 1, ShowStrength |-> FALSE,
     PolicyTemplate |-> ""]

ToPasswordConfig(c) ==
    PasswordConfig(c.Length, c.IncludeUpper, c.IncludeLower, c.IncludeDigits,
                   c.IncludeSymbols, c.ExcludeAmbiguous)

(***************************************************************************)
(* config.go: LoadConfig.  The file system gives, for each path LoadConfig *)
(* tries, whether a file is there and the settings its YAML holds (every   *)
(* file that is there parses); the environment gives each PWGEN_ variable  *)
(* as its characters, empty when unset (the policy template as a string).  *)
(***************************************************************************)
\* parseBool's words for true and for false
TrueWords ==
    {<<"t", "r", "u", "e">>,
     <<"1">>,
     <<"y", "e", "s">>,
     <<"o", "n">>,
     <<"e", "n", "a", "b", "l", "e">>,
     <<"e", "n", "a", "b", "l", "e", "d">>}

FalseWords ==
    {<<"f", "a", "l", "s", "e">>,
     <<"0">>,
     <<"n", "o">>,
     <<"o", "f", "f">>,
     <<"d", "i", "s", "a", "b", "l", "e">>,
     <<"d", "i", "s", "a", "b", "l", "e", "d">>}

parseBool(val, defaultValue) ==
    IF ToLower(val) \in TrueWords THEN TRUE
    ELSE IF ToLower(val) \in FalseWords THEN FALSE
    ELSE defaultValue

\* the value of a decimal digit
DigitValue(c) == (CHOOSE x \in 1..Len(Digits) : Digits[x] = c) - 1

\* the number the digits ds[1..n] write
RECURSIVE Decimal(_, _)
Decimal(ds, n) ==
    IF n = 0 THEN 0 ELSE 10 * Decimal(ds, n - 1) + DigitValue(ds[n])

\* strconv.Atoi(val): an optional sign and then digits only
Atoi(val) ==
    LET signed == val # <<>> /\ val[1] \in {"+", "-"}
        ds == IF signed THEN Tail(val) ELSE val
    IN  IF ds # <<>> /\ \A x \in 1..Len(ds) : ds[x] \in Chars(Digits)
        THEN [ok |-> TRUE,
              value |-> IF signed /\ val[1] = "-"
                        THEN 0 - Decimal(ds, Len(ds)) ELSE Decimal(ds, Len(ds))]
        ELSE [ok |-> FALSE, value |-> 0]

\* the paths LoadConfig tries, in order
configPaths ==
    <<".pwgen.yaml", ".pwgen.yml", "~/.pwgen.yaml", "~/.pwgen.yml",
      "~/.config/pwgen/config.yaml", "~/.config/pwgen/config.yml">>

\* no file at a path; a file with the settings its YAML holds
NoFile == [exists |-> FALSE, settings |-> <<>>]

File(settings) == [exists |-> TRUE, settings |-> settings]

\* yaml.Unmarshal(data, config): the keys of the file overwrite the fields
Unmarshal(settings, config) ==
    [field \in DOMAIN config |->
       IF field \in DOMAIN settings THEN settings[field] ELSE config[field]]

\* the loop over configPaths: the first file found is used
RECURSIVE loadConfigFromFiles(_, _, _)
loadConfigFromFiles(fs, config, x) ==
    IF x > Len(configPaths) THEN config
    ELSE IF fs[configPaths[x]].exists
    THEN Unmarshal(fs[configPaths[x]].settings, config)
    ELSE loadConfigFromFiles(fs, config, x + 1)

loadConfigFromEnv(config, env) ==
    LET IntVar(name, old) ==
          IF env[name] # <<>> /\ Atoi(env[name]).ok
          THEN Atoi(env[name]).value ELSE old
        BoolVar(name, old) ==
          IF env[name] # <<>> THEN parseBool(env[name], old) ELSE old
    IN  [Length |-> IntVar("PWGEN_LENGTH", config.Length),
         IncludeUpper |-> BoolVar("PWGEN_INCLUDE_UPPER", config.IncludeUpper),
         IncludeLower |-> BoolVar("PWGEN_INCLUDE_LOWER", config.IncludeLower),
         IncludeDigits |-> BoolVar("PWGEN_INCLUDE_DIGITS", config.IncludeDigits),
         IncludeSymbols |-> BoolVar("PWGEN_INCLUDE_SYMBOLS", config.IncludeSymbols),
         ExcludeAmbiguous |->
           BoolVar("PWGEN_EXCLUDE_AMBIGUOUS", config.ExcludeAmbiguous),
         Count |-> IntVar("PWGEN_COUNT", config.Count),
         ShowStrength |-> BoolVar("PWGEN_SHOW_STRENGTH", config.ShowStrength),
         PolicyTemplate |->
           IF env["PWGEN_POLICY_TEMPLATE"] # ""
           THEN env["PWGEN_POLICY_TEMPLATE"] ELSE config.PolicyTemplate]

LoadConfig(fs, env) ==
    loadConfigFromEnv(loadConfigFromFiles(fs, DefaultConfig, 1), env)

(***************************************************************************)
(* State.                                                                  *)
(*   pc        where control is                                            *)
(*   config    main's config, or the argument of a direct call             *)
(*   charset, buf, k   generatePassword's charset, password slice and i    *)
(*   rnd       the values rand.Int has returned in this call (the first    *)
(*             Period of them), draws the number of calls of rand.Int      *)
(*   password, err     what generatePassword returned to its caller        *)
(*   baseConfig, count, countShort, policyTemplate, policy, i, violations  *)
(*             main's variables of these names                             *)
(*   args      the -count, -c and -validate flags flag.Parse saw           *)
(*   printed   the password lines written to standard output               *)
(*   stderr    the lines written to standard error                         *)
(*   exitCode  the exit status, -1 while the process runs                  *)
(*   verdict   the verdict line -validate wrote to standard output         *)
(*   initialConfig   the config a test of ApplyPolicyToConfig starts from   *)
(*   tt        the case of a table-driven test                             *)
(*   result    what the function under test returned for it                *)
(***************************************************************************)
VARIABLES pc, config, charset, buf, k, rnd, draws, password, err,
          baseConfig, count, countShort, policyTemplate, policy, args, i,
          violations, printed, stderr, exitCode, verdict, initialConfig,
          tt, result

genVars == <<charset, buf, k, rnd, draws, password, err>>

mainVars ==
    <<baseConfig, count, countShort, policyTemplate, policy, args, i,
      violations, printed, stderr, exitCode, verdict>>

testVars == <<initialConfig, tt, result>>

callerVars == <<mainVars, testVars>>

vars == <<pc, config, genVars, mainVars, testVars>>

\* a flag of the command line: given with a value, or absent
Flag(v) == [set |-> TRUE, value |-> v]
NoInt == [set |-> FALSE, value |-> 0]
NoBool == [set |-> FALSE, value |-> FALSE]
NoString == [set |-> FALSE, value |-> ""]
NoSeq == [set |-> FALSE, value |-> <<>>]

\* no -count, -c or -validate on the command line
NoArgs == [count |-> NoInt, c |-> NoInt, validate |-> NoSeq]

\* the value a flag variable holds after flag.Parse
Parsed(flag, default) == IF flag.set THEN flag.value ELSE default

\* the variables a run of main never touches, and a direct call's idle ones
IdleMain ==
    /\ baseConfig = DefaultConfig
    /\ count = 0
    /\ countShort = 0
    /\ policyTemplate = ""
    /\ policy = ZeroPolicy
    /\ args = NoArgs
    /\ i = 0
    /\ violations = <<>>
    /\ printed = 0
    /\ stderr = <<>>
    /\ exitCode = -1
    /\ verdict = ""

\* no table-driven test runs
IdleTest ==
    /\ tt = <<>>
    /\ result = <<>>

IdleGen ==
    /\ charset = <<>>
    /\ buf = <<>>
    /\ k = 0
    /\ rnd = <<>>
    /\ draws = 0
    /\ password = <<>>
    /\ err = nil

(***************************************************************************)
(* The secure random source: rand.Int(rand.Reader, n) yields a value in    *)
(* [0, n) or fails.  The model lets it yield NumDraws evenly spread values *)
(* of the range, and repeat with period Period within one call.            *)
(***************************************************************************)
DrawSet(n) == {(q * n) \div NumDraws : q \in 0..(NumDraws - 1)}

RandInt(n, call, seen) ==
    IF call < Period THEN DrawSet(n) ELSE {seen[(call % Period) + 1]}

(***************************************************************************)
(* generatePassword, one action per step of its body.                      *)
(***************************************************************************)
\* mutant: an empty charset is reported without an error value
GenEnter_emptyCharsetNoError ==
    /\ pc = "gen_entry"
    /\ charset' = buildCharset(config)
    /\ rnd' = <<>>
    /\ draws' = 0
    /\ k' = 0
    /\ IF Len(charset') = 0
       THEN /\ password' = <<>>
            /\ err' = nil
            /\ buf' = <<>>
            /\ pc' = "gen_ret"
       ELSE IF config.Length < 0
            THEN /\ pc' = "panic"
                 /\ UNCHANGED <<buf, password, err>>
            ELSE /\ buf' = [x \in 1..config.Length |-> NUL]
                 /\ pc' = "gen_loop"
                 /\ UNCHANGED <<password, err>>
    /\ UNCHANGED config
    /\ UNCHANGED callerVars

\* lines 192-198: build the charset, fail on an empty one, allocate the slice
\* (make panics on a negative length)
GenEnter ==
    /\ pc = "gen_entry"
    /\ charset' = buildCharset(config)
    /\ rnd' = <<>>
    /\ draws' = 0
    /\ k' = 0
    /\ IF Len(charset') = 0
       THEN /\ password' = <<>>
            /\ err' = "no valid characters available for password generation"
            /\ buf' = <<>>
            /\ pc' = "gen_ret"
       ELSE IF config.Length < 0
            THEN /\ pc' = "panic"
                 /\ UNCHANGED <<buf, password, err>>
            ELSE /\ buf' = [x \in 1..config.Length |-> NUL]
                 /\ pc' = "gen_loop"
                 /\ UNCHANGED <<password, err>>
    /\ UNCHANGED config
    /\ UNCHANGED callerVars

\* lines 200-206, one iteration whose draw succeeds
GenDraw ==
    /\ pc = "gen_loop"
    /\ k < config.Length
    /\ \E randomIndex \in RandInt(Len(charset), k, rnd) :
         /\ buf' = [buf EXCEPT ![k + 1] = charset[randomIndex + 1]]
         /\ rnd' = IF k < Period THEN Append(rnd, randomIndex) ELSE rnd
    /\ k' = k + 1
    /\ draws' = draws + 1
    /\ UNCHANGED <<pc, config, charset, password, err>>
    /\ UNCHANGED callerVars

\* mutant: a failed draw returns the characters drawn so far
GenDrawFails_returnsPrefix ==
    /\ pc = "gen_loop"
    /\ k < config.Length
    /\ draws' = draws + 1
    /\ password' = SubSeq(buf, 1, k)
    /\ err' = "failed to generate random number"
    /\ buf' = <<>>
    /\ rnd' = <<>>
    /\ pc' = "gen_ret"
    /\ UNCHANGED <<config, charset, k>>
    /\ UNCHANGED callerVars

\* lines 201-204, one iteration whose draw fails; the slice is released
GenDrawFails ==
    /\ pc = "gen_loop"
    /\ k < config.Length
    /\ draws' = draws + 1
    /\ password' = <<>>
    /\ err' = "failed to generate random number"
    /\ buf' = <<>>
    /\ rnd' = <<>>
    /\ pc' = "gen_ret"
    /\ UNCHANGED <<config, charset, k>>
    /\ UNCHANGED callerVars

\* line 208: the slice becomes the returned string
GenReturn ==
    /\ pc = "gen_loop"
    /\ k >= config.Length
    /\ password' = buf
    /\ err' = nil
    /\ buf' = <<>>
    /\ rnd' = <<>>
    /\ pc' = "gen_ret"
    /\ UNCHANGED <<config, charset, k, draws>>
    /\ UNCHANGED callerVars

generatePassword == GenEnter \/ GenDraw \/ GenDrawFails \/ GenReturn

(***************************************************************************)
(* SpecGen: generatePassword called directly, as the tests call it, with   *)
(* every config of the bounded set.                                        *)
(***************************************************************************)
GenConfigs ==
    {PasswordConfig(len, u, l, d, s, a) :
       len \in (-1)..MaxLen, u \in BOOLEAN, l \in BOOLEAN, d \in BOOLEAN,
       s \in BOOLEAN, a \in BOOLEAN}

InitGen ==
    /\ pc = "gen_entry"
    /\ config \in GenConfigs
    /\ IdleGen
    /\ IdleMain
    /\ initialConfig = config
    /\ IdleTest

NextGen == GenEnter \/ GenDraw \/ GenDrawFails \/ GenReturn

SpecGen == InitGen /\ [][NextGen]_vars

(***************************************************************************)
(* main(): the generation path and -validate.  The special commands        *)
(* -list-policies and -save-config and the strength display are not on it. *)
(***************************************************************************)
\* the orders in which the substitutions map is iterated
MapOrders == {<<1, 2, 3, 4, 5, 6>>, <<6, 5, 4, 3, 2, 1>>}

\* lines 45-69: the flag variables after flag.Parse; -c defaults to the
\* count the configuration gave
ParseFlags(a) ==
    /\ pc = "main_flags"
    /\ config' =
         PasswordConfig(Parsed(a.length, config.Length),
                        Parsed(a.upper, config.IncludeUpper),
                        Parsed(a.lower, config.IncludeLower),
                        Parsed(a.digits, config.IncludeDigits),
                        Parsed(a.symbols, config.IncludeSymbols),
                        Parsed(a.noAmbiguous, config.ExcludeAmbiguous))
    /\ count' = Parsed(a.count, count)
    /\ countShort' = Parsed(a.c, count)
    /\ policyTemplate' = Parsed(a.policy, policyTemplate)
    /\ args' = [count |-> a.count, c |-> a.c, validate |-> a.validate]
    /\ pc' = "main_policy"
    /\ UNCHANGED <<genVars, baseConfig, policy, i, violations, printed,
                   stderr, exitCode, verdict, testVars>>

\* lines 90-112: -validate checks the given password against the policy and
\* ends the command
MainValidateOnly ==
    /\ pc = "main_policy"
    /\ Parsed(args.validate, <<>>) # <<>>
    /\ pc' = "exit"
    /\ IF policyTemplate = ""
       THEN /\ stderr' = Append(stderr, "--policy required when using --validate")
            /\ exitCode' = 1
            /\ UNCHANGED <<violations, verdict>>
       ELSE LET r == GetPolicy(policyTemplate)
            IN  IF r.err # nil
                THEN /\ stderr' = Append(stderr, r.err)
                     /\ exitCode' = 1
                     /\ UNCHANGED <<violations, verdict>>
                ELSE /\ \E mapOrder \in MapOrders :
                          violations' =
                             ValidatePasswordAgainstPolicy(args.validate.value,
                                                           r.policy, mapOrder)
                     /\ verdict' = IF violations' = <<>> THEN "meets" ELSE "violates"
                     /\ exitCode' = 0
                     /\ UNCHANGED stderr
    /\ UNCHANGED <<config, genVars, baseConfig, count, countShort,
                   policyTemplate, policy, args, i, printed, testVars>>

\* lines 114-125
MainApplyPolicy ==
    /\ pc = "main_policy"
    /\ Parsed(args.validate, <<>>) = <<>>
    /\ IF policyTemplate # ""
       THEN LET r == GetPolicy(policyTemplate)
            IN  IF r.err # nil
                THEN /\ stderr' = stderr \o <<r.err, "Available policies">>
                     /\ exitCode' = 1
                     /\ pc' = "exit"
                     /\ UNCHANGED <<policy, config>>
                ELSE /\ policy' = r.policy
                     /\ config' = ApplyPolicyToConfig(r.policy, config)
                     /\ pc' = "main_count"
                     /\ UNCHANGED <<stderr, exitCode>>
       ELSE /\ pc' = "main_count"
            /\ UNCHANGED <<policy, config, stderr, exitCode>>
    /\ UNCHANGED <<genVars, baseConfig, count, countShort, policyTemplate,
                   args, i, violations, printed, verdict, testVars>>

\* lines 127-130
MainUseShortFlag ==
    /\ pc = "main_count"
    /\ count' = IF countShort # count THEN countShort ELSE count
    /\ pc' = "main_validate"
    /\ UNCHANGED <<config, genVars, baseConfig, countShort, policyTemplate,
                   policy, args, i, violations, printed, stderr, exitCode,
                   verdict, testVars>>

\* mutant: the error of validateConfig is ignored
MainValidate_ignoresError ==
    /\ pc = "main_validate"
    /\ pc' = "main_loop"
    /\ UNCHANGED <<config, genVars, baseConfig, count, countShort,
                   policyTemplate, policy, args, i, violations, printed,
                   stderr, exitCode, verdict, testVars>>

\* lines 132-135
MainValidate ==
    /\ pc = "main_validate"
    /\ IF validateConfig(config) # nil
       THEN /\ stderr' = Append(stderr, validateConfig(config))
            /\ exitCode' = 1
            /\ pc' = "exit"
       ELSE /\ pc' = "main_loop"
            /\ UNCHANGED <<stderr, exitCode>>
    /\ UNCHANGED <<config, genVars, baseConfig, count, countShort,
                   policyTemplate, policy, args, i, violations, printed,
                   verdict, testVars>>

\* line 137: the loop test; the call of generatePassword, or the end of main
MainLoop ==
    /\ pc = "main_loop"
    /\ IF i < count
       THEN /\ pc' = "gen_entry"
            /\ UNCHANGED exitCode
       ELSE /\ pc' = "exit"
            /\ exitCode' = 0
    /\ UNCHANGED <<config, genVars, baseConfig, count, countShort,
                   policyTemplate, policy, args, i, violations, printed,
                   stderr, verdict, testVars>>

\* lines 138-173: a failed generation is fatal; the password is printed and
\* validated against the policy
MainReport ==
    /\ pc = "gen_ret"
    /\ IF err # nil
       THEN /\ stderr' = Append(stderr, err)
            /\ exitCode' = 1
            /\ pc' = "exit"
            /\ UNCHANGED violations
       ELSE /\ \E mapOrder \in MapOrders :
                 violations' =
                    IF policyTemplate # ""
                    THEN ValidatePasswordAgainstPolicy(password, policy, mapOrder)
                    ELSE <<>>
            /\ pc' = "main_println"
            /\ UNCHANGED <<stderr, exitCode>>
    /\ UNCHANGED <<config, genVars, baseConfig, count, countShort,
                   policyTemplate, policy, args, i, printed, verdict, testVars>>

\* lines 175-176 and i++: the line ends; the locals of the iteration and of
\* the call are gone
MainPrintln ==
    /\ pc = "main_println"
    /\ printed' = printed + 1
    /\ i' = i + 1
    /\ violations' = <<>>
    /\ charset' = <<>>
    /\ buf' = <<>>
    /\ k' = 0
    /\ rnd' = <<>>
    /\ draws' = 0
    /\ password' = <<>>
    /\ err' = nil
    /\ pc' = "main_loop"
    /\ UNCHANGED <<config, baseConfig, count, countShort, policyTemplate,
                   policy, args, stderr, exitCode, verdict, testVars>>

(***************************************************************************)
(* Spec: a run of the command.  The configuration LoadConfig returns is    *)
(* the default one with any count up to MaxCount; the command lines are    *)
(* those of three families.                                                *)
(***************************************************************************)
LengthFlags == {Flag(n) : n \in (-1)..MaxLen}

CountFlags == {NoInt} \cup {Flag(n) : n \in 0..MaxCount}

PolicyFlags ==
    {Flag(name) : name \in DOMAIN BuiltinPolicies \cup {"nonexistent"}}

\* a boolean flag is absent or given against the default
BoolFlags(default) == {NoBool, Flag(~default)}

ClassArgs(LF, CF, SF, PF) ==
    [length : LF,
     upper : BoolFlags(DefaultConfig.IncludeUpper),
     lower : BoolFlags(DefaultConfig.IncludeLower),
     digits : BoolFlags(DefaultConfig.IncludeDigits),
     symbols : BoolFlags(DefaultConfig.IncludeSymbols),
     noAmbiguous : BoolFlags(DefaultConfig.ExcludeAmbiguous),
     count : CF, c : SF, policy : PF, validate : {NoSeq}]

\* any given length and classes; any policy with any length and classes;
\* any pair of count flags with the default classes; -validate with any
\* policy or none
CommandLines ==
    ClassArgs(LengthFlags, {NoInt}, {NoInt}, {NoString})
      \cup ClassArgs(LengthFlags \cup {NoInt}, {NoInt}, {NoInt}, PolicyFlags)
      \cup [length : {NoInt, Flag(1)}, upper : {NoBool}, lower : {NoBool},
            digits : {NoBool}, symbols : {NoBool}, noAmbiguous : {NoBool},
            count : CountFlags, c : CountFlags, policy : {NoString},
            validate : {NoSeq}]
      \cup [length : {NoInt}, upper : {NoBool}, lower : {NoBool},
            digits : {NoBool}, symbols : {NoBool}, noAmbiguous : {NoBool},
            count : {NoInt}, c : {NoInt}, policy : PolicyFlags \cup {NoString},
            validate : {Flag(PASS1), Flag(MYSECURE1)}]

MainParseFlags == \E a \in CommandLines : ParseFlags(a)

Init ==
    /\ pc = "main_flags"
    /\ baseConfig \in {[DefaultConfig EXCEPT !.Count = n] : n \in 1..MaxCount}
    /\ config = ToPasswordConfig(baseConfig)
    /\ count = baseConfig.Count
    /\ policyTemplate = baseConfig.PolicyTemplate
    /\ countShort = 0
    /\ policy = ZeroPolicy
    /\ args = NoArgs
    /\ i = 0
    /\ violations = <<>>
    /\ printed = 0
    /\ stderr = <<>>
    /\ exitCode = -1
    /\ verdict = ""
    /\ IdleGen
    /\ initialConfig = config
    /\ IdleTest

Next ==
    \/ MainParseFlags
    \/ MainValidateOnly
    \/ MainApplyPolicy
    \/ MainUseShortFlag
    \/ MainValidate
    \/ MainLoop
    \/ GenEnter
    \/ GenDraw
    \/ GenDrawFails
    \/ GenReturn
    \/ MainReport
    \/ MainPrintln

Spec == Init /\ [][Next]_vars

(***************************************************************************)
(* SpecPolicy: ApplyPolicyToConfig called directly, as its tests call it,  *)
(* with the registry's policies and with every policy of a bounded set.    *)
(***************************************************************************)
\* largest MinLength and MaxLength of a test's own policy
MaxPolicyLen == 2

TestPolicies ==
    {BuiltinPolicies[name] : name \in DOMAIN BuiltinPolicies}
      \cup {[ZeroPolicy EXCEPT !.MinLength = mn, !.MaxLength = mx,
               !.RequireUpper = u, !.RequireLower = l, !.RequireDigits = d,
               !.RequireSymbols = s, !.ExcludeAmbiguous = a] :
              mn \in 0..MaxPolicyLen, mx \in 0..MaxPolicyLen, u \in BOOLEAN,
              l \in BOOLEAN, d \in BOOLEAN, s \in BOOLEAN, a \in BOOLEAN}

\* the bounded lengths, and one past each registry maximum
TestLengths ==
    ((-1)..MaxLen)
      \cup {BuiltinPolicies[name].MaxLength + 1 : name \in DOMAIN BuiltinPolicies}

InitPolicy ==
    /\ pc = "test_apply"
    /\ policy \in TestPolicies
    /\ initialConfig \in
         {PasswordConfig(len, u, l, d, s, a) :
            len \in TestLengths, u \in BOOLEAN, l \in BOOLEAN, d \in BOOLEAN,
            s \in BOOLEAN, a \in BOOLEAN}
    /\ config = initialConfig
    /\ baseConfig = DefaultConfig
    /\ count = 0
    /\ countShort = 0
    /\ policyTemplate = ""
    /\ args = NoArgs
    /\ i = 0
    /\ violations = <<>>
    /\ printed = 0
    /\ stderr = <<>>
    /\ exitCode = -1
    /\ verdict = ""
    /\ IdleGen
    /\ IdleTest

\* config := tt.initialConfig; ApplyPolicyToConfig(tt.policy, &config)
TestApplyPolicy ==
    /\ pc = "test_apply"
    /\ config' = ApplyPolicyToConfig(policy, config)
    /\ pc' = "test_done"
    /\ UNCHANGED <<genVars, mainVars, initialConfig, tt, result>>

NextPolicy == TestApplyPolicy

SpecPolicy == InitPolicy /\ [][NextPolicy]_vars

(***************************************************************************)
(* SpecValidate: ValidatePasswordAgainstPolicy called directly, as its     *)
(* tests call it: tt is the case (password, policy), result the violations.*)
(***************************************************************************)
\* longest password of the enumerated ones
MaxPwLen == 3

\* one character of each class; "0" is a digit and ambiguous
TestAlphabet == {"a", "A", "0", "!"}

\* the passwords of TestValidatePasswordAgainstPolicy
TablePasswords ==
    {MYSECURE1, PASS1, MYSECURE, WEAK123, MYCORP, PASSW0RD, TESTPASSWORD}

TestPasswords ==
    UNION {[1..n -> TestAlphabet] : n \in 0..MaxPwLen} \cup TablePasswords

\* the length bounds, with and without ambiguous exclusion and RequireUpper
LengthPolicies ==
    {[ZeroPolicy EXCEPT !.MinLength = mn, !.MaxLength = mx,
        !.ExcludeAmbiguous = a, !.RequireUpper = u] :
       mn \in 0..MaxPolicyLen, mx \in 0..MaxPolicyLen, a \in BOOLEAN,
       u \in BOOLEAN}

\* one class required or not, with any minimum count
ClassPolicies ==
    {[ZeroPolicy EXCEPT !.RequireUpper = req, !.MinUpper = min,
        !.ExcludeAmbiguous = a] :
       req \in BOOLEAN, min \in 0..MaxPolicyLen, a \in BOOLEAN}
      \cup {[ZeroPolicy EXCEPT !.RequireLower = req, !.MinLower = min,
               !.ExcludeAmbiguous = a] :
              req \in BOOLEAN, min \in 0..MaxPolicyLen, a \in BOOLEAN}
      \cup {[ZeroPolicy EXCEPT !.RequireDigits = req, !.MinDigits = min,
               !.ExcludeAmbiguous = a] :
              req \in BOOLEAN, min \in 0..MaxPolicyLen, a \in BOOLEAN}
      \cup {[ZeroPolicy EXCEPT !.RequireSymbols = req, !.MinSymbols = min,
               !.ExcludeAmbiguous = a] :
              req \in BOOLEAN, min \in 0..MaxPolicyLen, a \in BOOLEAN}

\* forbidden characters and patterns, a minimum entropy, a required class
ForbiddingPolicies ==
    {[ZeroPolicy EXCEPT !.ForbiddenChars = fc, !.ForbiddenPatterns = fp,
        !.MinEntropy = me, !.RequireDigits = d] :
       fc \in {<<>>, <<"a">>, <<"A", "!">>, <<"a", "0", "a">>},
       fp \in {<<>>, << <<"a", "a">> >>, << <<"A", "0">>, <<"a">> >>},
       me \in {0, 10}, d \in BOOLEAN}

ValidatePolicies ==
    {BuiltinPolicies[name] : name \in DOMAIN BuiltinPolicies}
      \cup LengthPolicies \cup ClassPolicies \cup ForbiddingPolicies

InitValidate ==
    /\ pc = "test_validate"
    /\ tt \in [password : TestPasswords, policy : ValidatePolicies]
    /\ result = <<>>
    /\ config = ToPasswordConfig(DefaultConfig)
    /\ initialConfig = config
    /\ IdleMain
    /\ IdleGen

\* violations := ValidatePasswordAgainstPolicy(tt.password, tt.policy)
TestValidate ==
    /\ pc = "test_validate"
    /\ \E mapOrder \in MapOrders :
          result' = ValidatePasswordAgainstPolicy(tt.password, tt.policy, mapOrder)
    /\ pc' = "test_done"
    /\ UNCHANGED <<config, genVars, mainVars, initialConfig, tt>>

NextValidate == TestValidate

SpecValidate == InitValidate /\ [][NextValidate]_vars

\* the passwords of the strength tests, as character sequences; CAPPING is
\* the first 20 characters of the password of TestScoreOver100Capping
T123 == <<"1", "2", "3">>

SIMPLE123 == <<"s", "i", "m", "p", "l", "e", "1", "2", "3">>

SECUREKEY == <<"S", "e", "c", "u", "r", "e", "K", "e", "y", "1", "2", "3", "!">>

RX7 == <<"R", "x", "7", "!", "k", "N", "m", "9", "@", "p", "Q", "z">>

COMPLEX2024 == <<"C", "0", "m", "p", "l", "3", "x", "!", "P", "@", "s", "s", "w", "0", "r", "d", "#", "2", "0", "2", "4">>

ABCD == <<"A", "B", "C", "D">>

ABC123 == <<"A", "b", "C", "1", "2", "3">>

COMPLEXPASS == <<"C", "0", "m", "p", "l", "3", "x", "!", "P", "@", "s", "s">>

PASSWORD123 == <<"p", "a", "s", "s", "w", "o", "r", "d", "1", "2", "3">>

EXCELLENT == <<"E", "x", "3", "l", "l", "3", "n", "t", "P", "@", "s", "s", "w", "0", "r", "d", "!", "2", "0", "2", "4">>

HIGHENTROPY == <<"H", "i", "g", "h", "E", "n", "t", "r", "o", "p", "y", "P", "a", "s", "s", "w", "o", "r", "d", "W", "i", "t", "h", "1", "2", "3", "!", "@", "#">>

CAPPING == <<"m", "K", "j", "8", "!", "p", "Q", "x", "3", "@", "n", "Z", "r", "7", "#", "b", "Y", "f", "9", "$">>

(***************************************************************************)
(* SpecStrength: the strength analyzer's functions called directly, as     *)
(* their tests call them: tt is the case, result what the function gave.   *)
(***************************************************************************)
StrengthAlphabet == {"a", "b", "c", "A", "1", "!"}

\* the password of TestScoreOver100Capping cut at every length, alone and
\* followed by a repeated run, a sequence, a common pattern or all three
LongPasswords ==
    {SubSeq(CAPPING, 1, n) \o tail :
       n \in 0..Len(CAPPING),
       tail \in {<<>>, <<"a", "a", "a">>, <<"1", "2", "3">>,
                 <<"a", "d", "m", "i", "n">>,
                 <<"a", "a", "a", "1", "2", "3", "a", "d", "m", "i", "n">>}}

StrengthPasswords ==
    UNION {[1..n -> StrengthAlphabet] : n \in 0..MaxPwLen}
      \cup {T123, SIMPLE123, SECUREKEY, RX7, COMPLEX2024, ABCD, ABC123,
            COMPLEXPASS, PASSWORD123, EXCELLENT, HIGHENTROPY, CAPPING}
      \cup LongPasswords

\* what is appended to a password to see how its entropy moves
TestSuffixes ==
    {<<"a">>, <<"c">>, <<"A">>, <<"1">>, <<"!">>, <<"a", "a">>, <<"b", "c">>,
     <<"1", "!">>}

\* the half seconds around the breakpoints, the ties of the rounding and
\* the values of TestFormatDuration, at every scale
TestHalves ==
    {b + delta : b \in {2, 120, 7200, 172800, Year}, delta \in (-1)..1}
      \cup {0, 3, 5, 60, 180, 240, 300, 14400, 345600, 2 * Year, 3 * Year}

\* every order in which the range over the substitutions map can go
SubstitutionOrders ==
    {order \in [1..Len(substitutions) -> 1..Len(substitutions)] :
       \A x, y \in 1..Len(substitutions) : x # y => order[x] # order[y]}

\* str with every letter the substitutions produce written as its symbol
Leet(str) ==
    [x \in 1..Len(str) |->
       IF \E q \in 1..Len(substitutions) : substitutions[q][2] = str[x]
       THEN substitutions[CHOOSE q \in 1..Len(substitutions) :
                            substitutions[q][2] = str[x]][1]
       ELSE str[x]]

\* the passwords of TestHasCommonPatterns, the common patterns written
\* with the symbols, and a near miss
SubstitutedPasswords ==
    {<<"C", "0", "m", "p", "l", "3", "x", "!", "P", "@", "s", "s">>,
     <<"m", "y", "p", "a", "s", "s", "w", "o", "r", "d", "1", "2", "3">>,
     <<"q", "w", "e", "r", "t", "y", "1", "2", "3">>,
     <<"p", "@", "s", "s", "w", "0", "r", "d">>,
     <<"w", "@", "l", "c", "o", "m", "3">>}
      \cup {Leet(commonPatterns[q]) : q \in 1..Len(commonPatterns)}

\* letters of both cases and digits that make alphabet, keyboard and digit
\* runs
SequentialAlphabet == {"a", "B", "c", "Q", "w", "E", "1", "2", "3"}

\* every password over them, and those of TestHasSequentialChars
SequentialPasswords ==
    UNION {[1..n -> SequentialAlphabet] : n \in 0..MaxPwLen}
      \cup {PASSW0RD,
            <<"a", "b", "c", "1", "2", "3">>,
            <<"t", "e", "s", "t", "1", "2", "3">>,
            <<"q", "w", "e", "r", "t", "y">>,
            <<"c", "b", "a", "9", "8", "7">>}

InitStrength ==
    /\ \/ /\ pc = "test_analyze"
          /\ tt \in [password : StrengthPasswords]
       \/ /\ pc = "test_level"
          /\ tt \in [score : 0..100]
       \/ /\ pc = "test_entropy"
          /\ tt \in [password : StrengthPasswords, suffix : TestSuffixes]
       \/ /\ pc = "test_common"
          /\ tt \in [password : SubstitutedPasswords,
                     mapOrder : SubstitutionOrders]
       \/ /\ pc = "test_sequential"
          /\ tt \in [password : SequentialPasswords]
       \/ /\ pc = "test_duration"
          /\ tt \in [seconds : {Duration(h, e) : h \in TestHalves, e \in 0..3}]
    /\ result = <<>>
    /\ config = ToPasswordConfig(DefaultConfig)
    /\ initialConfig = config
    /\ IdleMain
    /\ IdleGen

\* strength := AnalyzePasswordStrength(tt.password)
TestAnalyze ==
    /\ pc = "test_analyze"
    /\ \E mapOrder \in MapOrders :
          result' = AnalyzePasswordStrength(tt.password, mapOrder)
    /\ pc' = "done_analyze"
    /\ UNCHANGED <<config, genVars, mainVars, initialConfig, tt>>

\* got := getStrengthLevel(tt.score)
TestGetStrengthLevel ==
    /\ pc = "test_level"
    /\ result' = getStrengthLevel(tt.score)
    /\ pc' = "done_level"
    /\ UNCHANGED <<config, genVars, mainVars, initialConfig, tt>>

\* entropy := calculateEntropy(tt.password), and of the longer password
TestCalculateEntropy ==
    /\ pc = "test_entropy"
    /\ \E mapOrder \in MapOrders :
          result' = [before |-> calculateEntropy(tt.password, mapOrder),
                     after |-> calculateEntropy(tt.password \o tt.suffix, mapOrder)]
    /\ pc' = "done_entropy"
    /\ UNCHANGED <<config, genVars, mainVars, initialConfig, tt>>

\* got := formatDuration(tt.seconds)
TestFormatDuration ==
    /\ pc = "test_duration"
    /\ result' = formatDuration(tt.seconds)
    /\ pc' = "done_duration"
    /\ UNCHANGED <<config, genVars, mainVars, initialConfig, tt>>

\* got := hasCommonPatterns(tt.password), the map ranged in tt.mapOrder
TestHasCommonPatterns ==
    /\ pc = "test_common"
    /\ result' = hasCommonPatterns(tt.password, tt.mapOrder)
    /\ pc' = "done_common"
    /\ UNCHANGED <<config, genVars, mainVars, initialConfig, tt>>

\* got := hasSequentialChars(tt.password)
TestHasSequentialChars ==
    /\ pc = "test_sequential"
    /\ result' = hasSequentialChars(tt.password)
    /\ pc' = "done_sequential"
    /\ UNCHANGED <<config, genVars, mainVars, initialConfig, tt>>

NextStrength ==
    \/ TestAnalyze
    \/ TestHasSequentialChars
    \/ TestHasCommonPatterns
    \/ TestGetStrengthLevel
    \/ TestCalculateEntropy
    \/ TestFormatDuration

SpecStrength == InitStrength /\ [][NextStrength]_vars

(***************************************************************************)
(* SpecRegistry: GetPolicy and ListPolicies called directly, as their      *)
(* tests call them.                                                        *)
(***************************************************************************)
\* the registered names in exact and other spellings, and unknown names
TestNames ==
    Chars(PolicyNames) \cup {"nonexistent", "", "Basic", "CORPORATE", "pci"}

InitRegistry ==
    /\ \/ /\ pc = "test_getpolicy"
          /\ tt \in [name : TestNames]
       \/ /\ pc = "test_list"
          /\ tt = <<>>
    /\ result = <<>>
    /\ config = ToPasswordConfig(DefaultConfig)
    /\ initialConfig = config
    /\ IdleMain
    /\ IdleGen

\* policy, err := GetPolicy(tt.name)
TestGetPolicy ==
    /\ pc = "test_getpolicy"
    /\ result' = GetPolicy(tt.name)
    /\ pc' = "done_getpolicy"
    /\ UNCHANGED <<config, genVars, mainVars, initialConfig, tt>>

\* policies := ListPolicies()
TestListPolicies ==
    /\ pc = "test_list"
    /\ \E order \in RangeOrders : result' = ListPolicies(order)
    /\ pc' = "done_list"
    /\ UNCHANGED <<config, genVars, mainVars, initialConfig, tt>>

NextRegistry == TestGetPolicy \/ TestListPolicies

SpecRegistry == InitRegistry /\ [][NextRegistry]_vars

(***************************************************************************)
(* SpecConfig: main from LoadConfig to the settings in effect, the point   *)
(* where validateConfig is called.  tt is the file system, the environment *)
(* and the command line of the run.                                        *)
(***************************************************************************)
NoFiles == [path \in Chars(configPaths) |-> NoFile]

\* what a configuration file of the runs holds
TestSettings ==
    {[Count |-> 2], [Length |-> 1, IncludeSymbols |-> TRUE],
     [Length |-> 2, Count |-> 3, IncludeSymbols |-> FALSE]}

\* no file; one file in the directory or at home; one in each
TestFileSystems ==
    {NoFiles}
      \cup {[NoFiles EXCEPT ![path] = File(settings)] :
              path \in {".pwgen.yaml", "~/.pwgen.yml"}, settings \in TestSettings}
      \cup {[NoFiles EXCEPT ![".pwgen.yml"] = File(here),
                            !["~/.pwgen.yaml"] = File(home)] :
              here \in TestSettings, home \in TestSettings}

Unset ==
    [PWGEN_LENGTH |-> <<>>, PWGEN_INCLUDE_UPPER |-> <<>>,
     PWGEN_INCLUDE_LOWER |-> <<>>, PWGEN_INCLUDE_DIGITS |-> <<>>,
     PWGEN_INCLUDE_SYMBOLS |-> <<>>, PWGEN_EXCLUDE_AMBIGUOUS |-> <<>>,
     PWGEN_COUNT |-> <<>>, PWGEN_SHOW_STRENGTH |-> <<>>,
     PWGEN_POLICY_TEMPLATE |-> ""]

\* the variables unset, valid, or not a number and not a boolean word
TestEnvironments ==
    {[Unset EXCEPT !.PWGEN_LENGTH = len, !.PWGEN_COUNT = cnt,
        !.PWGEN_INCLUDE_SYMBOLS = sym] :
       len \in {<<>>, <<"3">>, <<"a", "b", "c">>},
       cnt \in {<<>>, <<"3">>, <<"x">>},
       sym \in {<<>>, <<"y", "e", "s">>, <<"O", "F", "F">>,
                <<"m", "a", "y", "b", "e">>}}

TestCommandLines ==
    [length : {NoInt, Flag(1)}, upper : {NoBool}, lower : {NoBool},
     digits : {NoBool}, symbols : {NoBool, Flag(TRUE), Flag(FALSE)},
     noAmbiguous : {NoBool}, count : {NoInt, Flag(2)}, c : {NoInt, Flag(1)},
     policy : {NoString}, validate : {NoSeq}]

InitConfig ==
    /\ pc = "main_load"
    /\ tt \in [fs : TestFileSystems, env : TestEnvironments,
               args : TestCommandLines]
    /\ result = <<>>
    /\ config = ToPasswordConfig(DefaultConfig)
    /\ initialConfig = config
    /\ IdleMain
    /\ IdleGen

\* lines 31-43: baseConfig, config and the defaults of the flag variables
MainLoadConfig ==
    /\ pc = "main_load"
    /\ baseConfig' = LoadConfig(tt.fs, tt.env)
    /\ config' = ToPasswordConfig(baseConfig')
    /\ count' = baseConfig'.Count
    /\ policyTemplate' = baseConfig'.PolicyTemplate
    /\ pc' = "main_flags"
    /\ UNCHANGED <<genVars, countShort, policy, args, i, violations, printed,
                   stderr, exitCode, verdict, testVars>>

\* flag.Parse on the command line of the run
MainParseRunFlags == ParseFlags(tt.args)

NextConfig ==
    \/ MainLoadConfig
    \/ MainParseRunFlags
    \/ MainApplyPolicy
    \/ MainUseShortFlag

SpecConfig == InitConfig /\ [][NextConfig]_vars

(***************************************************************************)
(* SpecRegistryRun: a run of the command with one of the registry policies *)
(* and a length and classes of any kind on the command line, up to lengths *)
(* beyond the largest MaxLength of the registry.                           *)
(***************************************************************************)
\* the classes as the configuration has them; none left; all four
RegistryClassFlags ==
    {[upper |-> NoBool, lower |-> NoBool, digits |-> NoBool, symbols |-> NoBool],
     [upper |-> Flag(FALSE), lower |-> Flag(FALSE), digits |-> Flag(FALSE),
      symbols |-> NoBool],
     [upper |-> NoBool, lower |-> NoBool, digits |-> NoBool,
      symbols |-> Flag(TRUE)]}

\* no length, a negative one, 0, and lengths over the MaxLength of aws and
\* of azure
ShortLengthFlags == {NoInt, Flag(-1), Flag(0)}

LongLengthFlags == {Flag(129), Flag(257)}

RegistryFlags == {Flag(name) : name \in DOMAIN BuiltinPolicies}

RegistryCommandLines ==
    {[length |-> len, upper |-> cl.upper, lower |-> cl.lower,
      digits |-> cl.digits, symbols |-> cl.symbols, noAmbiguous |-> amb,
      count |-> NoInt, c |-> NoInt, policy |-> pol, validate |-> NoSeq] :
       len \in ShortLengthFlags, cl \in RegistryClassFlags,
       amb \in {NoBool, Flag(TRUE)}, pol \in RegistryFlags}
      \cup
    {[length |-> len, upper |-> Flag(FALSE), lower |-> Flag(FALSE),
      digits |-> Flag(FALSE), symbols |-> NoBool, noAmbiguous |-> NoBool,
      count |-> NoInt, c |-> NoInt, policy |-> pol, validate |-> NoSeq] :
       len \in LongLengthFlags, pol \in RegistryFlags}

MainParseRegistryFlags == \E a \in RegistryCommandLines : ParseFlags(a)

InitRegistryRun ==
    /\ pc = "main_flags"
    /\ baseConfig = DefaultConfig
    /\ config = ToPasswordConfig(baseConfig)
    /\ count = baseConfig.Count
    /\ policyTemplate = baseConfig.PolicyTemplate
    /\ countShort = 0
    /\ policy = ZeroPolicy
    /\ args = NoArgs
    /\ i = 0
    /\ violations = <<>>
    /\ printed = 0
    /\ stderr = <<>>
    /\ exitCode = -1
    /\ verdict = ""
    /\ IdleGen
    /\ initialConfig = config
    /\ IdleTest

NextRegistryRun ==
    \/ MainParseRegistryFlags
    \/ MainApplyPolicy
    \/ MainUseShortFlag
    \/ MainValidate
    \/ MainLoop
    \/ GenEnter
    \/ GenDraw
    \/ GenDrawFails
    \/ GenReturn
    \/ MainReport
    \/ MainPrintln

SpecRegistryRun == InitRegistryRun /\ [][NextRegistryRun]_vars

(***************************************************************************)
(* Claims about generatePassword, checked under SpecGen.                   *)
(***************************************************************************)
AnyClass(c) ==
    c.IncludeUpper \/ c.IncludeLower \/ c.IncludeDigits \/ c.IncludeSymbols

\* the characters of the classes a config enables
EnabledChars(c) ==
    (IF c.IncludeLower THEN Chars(LowerCase) ELSE {})
      \cup (IF c.IncludeUpper THEN Chars(UpperCase) ELSE {})
      \cup (IF c.IncludeDigits THEN Chars(Digits) ELSE {})
      \cup (IF c.IncludeSymbols THEN Chars(Symbols) ELSE {})

AmbiguousChars == {"0", "O", "1", "l", "I"}

Returned == pc = "gen_ret"

\* C1: for a config with a class enabled and length >= 0, generatePassword
\* returns without error exactly config.Length characters, each a member of
\* buildCharset(config) and of the enabled classes, and none of 0 O 1 l I
\* when ExcludeAmbiguous is set.
C1_GeneratedFromCharset ==
    (Returned /\ AnyClass(config) /\ config.Length >= 0 /\ err = nil) =>
        /\ Len(password) = config.Length
        /\ \A x \in 1..Len(password) :
             /\ password[x] \in Chars(buildCharset(config))
             /\ password[x] \in EnabledChars(config)
             /\ config.ExcludeAmbiguous => password[x] \notin AmbiguousChars

C1_Witness ==
    /\ Returned
    /\ err = nil
    /\ config.ExcludeAmbiguous
    /\ config.IncludeDigits
    /\ config.Length = MaxLen
    /\ Len(password) = MaxLen
    /\ \E x \in 1..Len(password) : password[x] \in Chars(Digits)

\* C3: generatePassword returns an error and no password when no class is
\* selected or the length is negative, and never panics.
C3_ErrorNeverPanic ==
    /\ pc # "panic"
    /\ (Returned /\ (~AnyClass(config) \/ config.Length < 0)) =>
          (err # nil /\ password = <<>>)

\* C4: with an empty alphabet generatePassword returns an error and the
\* empty string for any length; with a non-empty alphabet and length 0 it
\* returns the empty string, no error, and makes no random draw.
C4_EmptyAlphabetAndZeroLength ==
    /\ ~AnyClass(config) =>
          /\ pc \in {"gen_entry", "gen_ret"}
          /\ Returned => (err # nil /\ password = <<>> /\ draws = 0)
    /\ (Returned /\ AnyClass(config) /\ config.Length = 0) =>
          (err = nil /\ password = <<>> /\ draws = 0)

C4_Witness ==
    /\ Returned
    /\ ~AnyClass(config)
    /\ config.Length = MaxLen
    /\ err # nil

\* C5: a failed draw ends the call at once: the draws made are the
\* successful ones and the failed one, none follows, the result is the empty
\* string with an error; a result without error is wholly filled.
C5_AllOrNothing ==
    /\ (Returned /\ err = "failed to generate random number") =>
          /\ password = <<>>
          /\ k < config.Length
          /\ draws = k + 1
          /\ ~ENABLED (GenDraw \/ GenDrawFails)
    /\ (Returned /\ err # nil) => password = <<>>
    /\ (Returned /\ err = nil) =>
          /\ Len(password) = config.Length
          /\ \A x \in 1..Len(password) : password[x] # NUL

C5_Witness ==
    /\ Returned
    /\ err = "failed to generate random number"
    /\ k >= 1
    /\ draws = k + 1
    /\ password = <<>>

\* C7: buildCharset is the concatenation Lower, Upper, Digits, Symbols of the
\* enabled classes, without 0 O 1 l I when ExcludeAmbiguous is set, the
\* order of the remaining characters unchanged; all four classes without
\* exclusion give exactly the four constants in that order.
AllFour == LowerCase \o UpperCase \o Digits \o Symbols

C7_CharsetOrderStable ==
    pc # "gen_entry" =>
        /\ charset =
             SelectSeq(AllFour,
                       LAMBDA c : /\ c \in EnabledChars(config)
                                  /\ config.ExcludeAmbiguous => c \notin AmbiguousChars)
        /\ (/\ config.IncludeLower /\ config.IncludeUpper
            /\ config.IncludeDigits /\ config.IncludeSymbols
            /\ ~config.ExcludeAmbiguous) => charset = AllFour

C7_Witness ==
    /\ pc = "gen_ret"
    /\ config.IncludeLower /\ config.IncludeUpper
    /\ config.IncludeDigits /\ config.IncludeSymbols
    /\ config.ExcludeAmbiguous
    /\ Len(charset) = Len(AllFour) - 5
    /\ charset[1] = "a"
    /\ charset[12] = "m"

(***************************************************************************)
(* Claims about main, checked under Spec.                                  *)
(***************************************************************************)
\* main is past validateConfig (an unknown policy ends it before, with two
\* lines on standard error)
Validated ==
    /\ pc \in {"main_loop", "gen_entry", "gen_loop", "gen_ret", "main_println",
               "exit"}
    /\ Parsed(args.validate, <<>>) = <<>>
    /\ Len(stderr) # 2

\* validateConfig failed: its error is the one line on standard error
Rejected == Validated /\ pc = "exit" /\ exitCode = 1 /\ err = nil

\* C2: -count N (N >= 1) without -c prints exactly N passwords, whatever
\* count the configuration gave.
C2_CountFlagHonoured ==
    (pc = "exit" /\ exitCode = 0 /\ args.count.set /\ args.count.value >= 1
       /\ ~args.c.set) => printed = args.count.value

\* C6 as claimed: validateConfig fails iff length < 1 or no class is set,
\* with the message "length must be at least 1" for the length (first) and
\* "at least one character type required" for the classes.
C6_ClaimedMessages ==
    Validated =>
        /\ Rejected <=> (config.Length < 1 \/ ~AnyClass(config))
        /\ config.Length < 1 => stderr = <<"length must be at least 1">>
        /\ (config.Length >= 1 /\ ~AnyClass(config)) =>
              stderr = <<"at least one character type required">>

\* C6 as amended: validateConfig fails iff length < 1 or no class is set,
\* with the message "password length must be at least 1" for the length
\* (first) and "at least one character type must be enabled" for the classes.
C6_ValidateConfig ==
    Validated =>
        /\ Rejected <=> (config.Length < 1 \/ ~AnyClass(config))
        /\ config.Length < 1 => stderr = <<"password length must be at least 1">>
        /\ (config.Length >= 1 /\ ~AnyClass(config)) =>
              stderr = <<"at least one character type must be enabled">>

C6_Witness ==
    /\ Rejected
    /\ config.Length < 1
    /\ ~AnyClass(config)
    /\ stderr = <<"password length must be at least 1">>

\* C10: a password generated with a policy template applied follows the
\* policy: ValidatePasswordAgainstPolicy reports no violation for it.
C10_GeneratedFollowsPolicy ==
    (pc = "main_println" /\ policyTemplate # "") => violations = <<>>

(***************************************************************************)
(* Claims about ApplyPolicyToConfig, checked under SpecPolicy.             *)
(***************************************************************************)
Applied == pc = "test_done"

RequiredEnabled ==
    /\ policy.RequireUpper => config.IncludeUpper
    /\ policy.RequireLower => config.IncludeLower
    /\ policy.RequireDigits => config.IncludeDigits
    /\ policy.RequireSymbols => config.IncludeSymbols
    /\ policy.ExcludeAmbiguous => config.ExcludeAmbiguous

\* C8 as claimed: after ApplyPolicyToConfig, for every policy and config,
\* Length >= MinLength, Length <= MaxLength when MaxLength > 0, and every
\* required flag is enabled.
C8_ClaimedBounds ==
    Applied =>
        /\ config.Length >= policy.MinLength
        /\ policy.MaxLength > 0 => config.Length <= policy.MaxLength
        /\ RequiredEnabled

\* C8 as amended: Length >= MinLength holds when the policy has no maximum
\* or its minimum does not exceed its maximum; Length <= MaxLength when
\* MaxLength > 0; every required flag is enabled.
C8_PolicyBounds ==
    Applied =>
        /\ (policy.MaxLength = 0 \/ policy.MinLength <= policy.MaxLength) =>
              config.Length >= policy.MinLength
        /\ policy.MaxLength > 0 => config.Length <= policy.MaxLength
        /\ RequiredEnabled

C8_Witness ==
    /\ Applied
    /\ initialConfig.Length < policy.MinLength
    /\ policy.MaxLength > 0
    /\ policy.MinLength <= policy.MaxLength
    /\ policy.RequireSymbols
    /\ ~initialConfig.IncludeSymbols
    /\ config.Length = policy.MinLength
    /\ config.IncludeSymbols

FlagsKept ==
    /\ initialConfig.IncludeUpper => config.IncludeUpper
    /\ initialConfig.IncludeLower => config.IncludeLower
    /\ initialConfig.IncludeDigits => config.IncludeDigits
    /\ initialConfig.IncludeSymbols => config.IncludeSymbols
    /\ initialConfig.ExcludeAmbiguous => config.ExcludeAmbiguous

\* C9 as claimed: ApplyPolicyToConfig never lowers Length and never
\* disables a flag.
C9_ClaimedNeverLowers ==
    Applied => (config.Length >= initialConfig.Length /\ FlagsKept)

\* C9 as amended: ApplyPolicyToConfig never disables a flag, and lowers
\* Length only to cap it: when MaxLength > 0 and the initial Length exceeds
\* it, the resulting Length is MaxLength; otherwise it is not below the
\* initial Length.
C9_LowersOnlyToCap ==
    Applied =>
        /\ FlagsKept
        /\ IF policy.MaxLength > 0 /\ initialConfig.Length > policy.MaxLength
           THEN config.Length = policy.MaxLength
           ELSE config.Length >= initialConfig.Length

C9_Witness ==
    /\ Applied
    /\ policy.Name = "AWS IAM Policy"
    /\ initialConfig.Length = 129
    /\ config.Length = 128
    /\ initialConfig.ExcludeAmbiguous
    /\ config.ExcludeAmbiguous


(***************************************************************************)
(* Claims about ValidatePasswordAgainstPolicy, checked under SpecValidate. *)
(***************************************************************************)
ValidateDone == pc = "test_done" /\ DOMAIN tt = {"password", "policy"}

\* the number of characters of pw in the set class
CountIn(pw, class) == Cardinality({x \in 1..Len(pw) : pw[x] \in class})

Letters == Chars(LowerCase) \cup Chars(UpperCase)

SymbolsOf(pw) == Chars(pw) \ (Letters \cup Chars(Digits))

RuleOrder ==
    <<"MinLength", "MaxLength", "RequireUpper", "RequireLower",
      "RequireDigits", "RequireSymbols", "MinUpper", "MinLower", "MinDigits",
      "MinSymbols", "ExcludeAmbiguous", "ForbiddenChars", "ForbiddenPatterns",
      "MinEntropy">>

RuleIndex(rule) == CHOOSE x \in 1..Len(RuleOrder) : RuleOrder[x] = rule

RulesOf(v) == [x \in 1..Len(v) |-> v[x].Rule]

\* the requirements C11 lists: lengths, Require*, Min*, forbidden
\* characters and patterns, entropy
MeetsListed(pw, p) ==
    /\ Len(pw) >= p.MinLength
    /\ p.MaxLength > 0 => Len(pw) <= p.MaxLength
    /\ p.RequireUpper => CountIn(pw, Chars(UpperCase)) >= 1
    /\ p.RequireLower => CountIn(pw, Chars(LowerCase)) >= 1
    /\ p.RequireDigits => CountIn(pw, Chars(Digits)) >= 1
    /\ p.RequireSymbols => SymbolsOf(pw) # {}
    /\ CountIn(pw, Chars(UpperCase)) >= p.MinUpper
    /\ CountIn(pw, Chars(LowerCase)) >= p.MinLower
    /\ CountIn(pw, Chars(Digits)) >= p.MinDigits
    /\ CountIn(pw, SymbolsOf(pw)) >= p.MinSymbols
    /\ Chars(p.ForbiddenChars) \cap Chars(pw) = {}
    /\ \A x \in 1..Len(p.ForbiddenPatterns) :
          ~Contains(ToLower(pw), ToLower(p.ForbiddenPatterns[x]))
    /\ \A mapOrder \in MapOrders :
          calculateEntropy(pw, mapOrder) >= Bits(p.MinEntropy)

C11_Examples ==
    /\ (tt.password = MYCORP /\ tt.policy = BuiltinPolicies["corporate"]) =>
          result = <<>>
    /\ (tt.password = PASS1 /\ tt.policy = BuiltinPolicies["basic"]) =>
          RulesOf(result) = <<"MinLength">>

\* C11 as claimed: a password meeting the policy's length bounds, Require*
\* and Min* counts, without forbidden character or pattern and with
\* entropy >= MinEntropy has no violation; MyC2rp2r@te!Secure has none
\* against corporate, Pass1 has exactly MinLength against basic.
C11_ClaimedNoViolation ==
    ValidateDone =>
        /\ MeetsListed(tt.password, tt.policy) => result = <<>>
        /\ C11_Examples

\* C11 as amended: such a password has no violation provided it also holds
\* no ambiguous character when the policy excludes them; the two examples
\* are as claimed.
C11_NoViolation ==
    ValidateDone =>
        /\ (/\ MeetsListed(tt.password, tt.policy)
            /\ tt.policy.ExcludeAmbiguous =>
                  Chars(tt.password) \cap AmbiguousChars = {})
              => result = <<>>
        /\ C11_Examples

C11_Witness ==
    /\ ValidateDone
    /\ tt.password = MYCORP
    /\ tt.policy = BuiltinPolicies["corporate"]
    /\ MeetsListed(tt.password, tt.policy)
    /\ result = <<>>

\* the rules whose check fails for pw against p
FailedRules(pw, p) ==
    {rule \in Chars(RuleOrder) :
       CASE rule = "MinLength" -> Len(pw) < p.MinLength
         [] rule = "MaxLength" -> p.MaxLength > 0 /\ Len(pw) > p.MaxLength
         [] rule = "RequireUpper" ->
                p.RequireUpper /\ CountIn(pw, Chars(UpperCase)) = 0
         [] rule = "RequireLower" ->
                p.RequireLower /\ CountIn(pw, Chars(LowerCase)) = 0
         [] rule = "RequireDigits" ->
                p.RequireDigits /\ CountIn(pw, Chars(Digits)) = 0
         [] rule = "RequireSymbols" -> p.RequireSymbols /\ SymbolsOf(pw) = {}
         [] rule = "MinUpper" -> CountIn(pw, Chars(UpperCase)) < p.MinUpper
         [] rule = "MinLower" -> CountIn(pw, Chars(LowerCase)) < p.MinLower
         [] rule = "MinDigits" -> CountIn(pw, Chars(Digits)) < p.MinDigits
         [] rule = "MinSymbols" -> CountIn(pw, SymbolsOf(pw)) < p.MinSymbols
         [] rule = "ExcludeAmbiguous" ->
                p.ExcludeAmbiguous /\ Chars(pw) \cap AmbiguousChars # {}
         [] rule = "ForbiddenChars" ->
                Chars(p.ForbiddenChars) \cap Chars(pw) # {}
         [] rule = "ForbiddenPatterns" ->
                \E x \in 1..Len(p.ForbiddenPatterns) :
                   Contains(ToLower(pw), ToLower(p.ForbiddenPatterns[x]))
         [] rule = "MinEntropy" ->
                /\ p.MinEntropy > 0
                /\ \E mapOrder \in MapOrders :
                      calculateEntropy(pw, mapOrder) < Bits(p.MinEntropy)}

\* C20: every check runs; the violations are exactly the failed rules, in
\* the order MinLength, MaxLength, RequireUpper, RequireLower,
\* RequireDigits, RequireSymbols, MinUpper, MinLower, MinDigits,
\* MinSymbols, ExcludeAmbiguous, ForbiddenChars, ForbiddenPatterns,
\* MinEntropy; Require* and Min* both fire for a class with count 0 and
\* minimum >= 1; MySecure has 2 violations against basic, weak123 has 7
\* against corporate.
C20_AllChecksInOrder ==
    ValidateDone =>
        /\ Chars(RulesOf(result)) = FailedRules(tt.password, tt.policy)
        /\ \A x \in 1..(Len(result) - 1) :
              RuleIndex(result[x].Rule) <= RuleIndex(result[x + 1].Rule)
        /\ \A x \in 1..(Len(result) - 1) :
              result[x].Rule = result[x + 1].Rule =>
                  result[x].Rule \in {"ForbiddenChars", "ForbiddenPatterns"}
        /\ (tt.policy.RequireUpper /\ tt.policy.MinUpper >= 1
              /\ CountIn(tt.password, Chars(UpperCase)) = 0) =>
              {"RequireUpper", "MinUpper"} \subseteq Chars(RulesOf(result))
        /\ (tt.password = MYSECURE /\ tt.policy = BuiltinPolicies["basic"]) =>
              RulesOf(result) = <<"RequireDigits", "MinDigits">>
        /\ (tt.password = WEAK123 /\ tt.policy = BuiltinPolicies["corporate"]) =>
              Len(result) = 7

C20_Witness ==
    /\ ValidateDone
    /\ tt.password = WEAK123
    /\ tt.policy = BuiltinPolicies["corporate"]
    /\ Len(result) = 7
    /\ {"RequireUpper", "MinUpper", "RequireSymbols", "MinSymbols"}
         \subseteq Chars(RulesOf(result))


(***************************************************************************)
(* Claims about the strength analyzer, checked under SpecStrength.         *)
(***************************************************************************)
\* the level the thresholds of C12 give a score
LevelOf(score) ==
    CASE score < 20 -> VeryWeak
      [] score >= 20 /\ score < 40 -> Weak
      [] score >= 40 /\ score < 60 -> Fair
      [] score >= 60 /\ score < 80 -> Good
      [] score >= 80 /\ score < 95 -> Strong
      [] score >= 95 -> VeryStrong

\* C12: AnalyzePasswordStrength returns a Score within [0,100] and the Level
\* the thresholds <20 VeryWeak, <40 Weak, <60 Fair, <80 Good, <95 Strong,
\* else VeryStrong give that Score; 19 is VeryWeak, 20 Weak, 59 Fair, 60
\* Good, 94 Strong, 95 VeryStrong.
C12_ScoreAndLevel ==
    /\ pc = "done_analyze" =>
          /\ result.Score \in 0..100
          /\ result.Level = LevelOf(result.Score)
    /\ pc = "done_level" =>
          /\ result = LevelOf(tt.score)
          /\ tt.score = 19 => result = VeryWeak
          /\ tt.score = 20 => result = Weak
          /\ tt.score = 59 => result = Fair
          /\ tt.score = 60 => result = Good
          /\ tt.score = 94 => result = Strong
          /\ tt.score = 95 => result = VeryStrong

C12_Witness ==
    /\ pc = "done_analyze"
    /\ tt.password = CAPPING
    /\ \E mapOrder \in MapOrders : ScoreAndFeedback(CAPPING, mapOrder).score = 105
    /\ result.Score = 100
    /\ result.Level = VeryStrong

\* the character classes present in pw
ClassesOf(pw) ==
    {class \in {"[a-z]", "[A-Z]", "[0-9]", "[^a-zA-Z0-9]"} :
       MatchString(class, pw)}

\* the pattern detectors pw triggers
DetectorsOf(pw) ==
    (IF hasRepeatedChars(pw) THEN {"repeated"} ELSE {})
      \cup (IF hasSequentialChars(pw) THEN {"sequential"} ELSE {})
      \cup (IF \E mapOrder \in MapOrders : hasCommonPatterns(pw, mapOrder)
            THEN {"common"} ELSE {})

\* C13: the entropy of the empty password is 0, that of a non-empty one is
\* positive, and appending characters that add no class and trigger no new
\* detector never decreases it.
C13_EntropyMonotone ==
    pc = "done_entropy" =>
        /\ tt.password = <<>> => result.before = 0
        /\ tt.password # <<>> => result.before > 0
        /\ result.after > 0
        /\ (/\ ClassesOf(tt.password \o tt.suffix) = ClassesOf(tt.password)
            /\ DetectorsOf(tt.password \o tt.suffix) = DetectorsOf(tt.password))
              => result.after >= result.before

C13_Witness ==
    /\ pc = "done_entropy"
    /\ tt.password = <<"a", "!", "a">>
    /\ tt.suffix = <<"c">>
    /\ DetectorsOf(tt.password \o tt.suffix) = DetectorsOf(tt.password)
    /\ ClassesOf(tt.password \o tt.suffix) = ClassesOf(tt.password)
    /\ result.before > 0
    /\ result.after > result.before

\* C18: formatDuration picks the unit by the breakpoints <1 Instant, <60
\* seconds, <3600 minutes, <86400 hours, <31536000 days, <31536000000 years,
\* then thousand, million, billion years, with N the rounded quotient;
\* 0.5 is Instant, 30 "30 seconds", 120 "2 minutes", 7200 "2 hours",
\* 172800 "2 days", 63072000 "2 years".
C18_FormatDuration ==
    pc = "done_duration" =>
        LET h == tt.seconds.half
            e == tt.seconds.e
            Is(n, unit) == result = [N |-> n, unit |-> unit]
            \* the half seconds of one unit, below a year
            per == CASE result.unit = "seconds" -> 2
                     [] result.unit = "minutes" -> 120
                     [] result.unit = "hours" -> 7200
                     [] result.unit = "days" -> 172800
                     [] OTHER -> Year
        IN  /\ e = 0 =>
                /\ result.unit = "Instant" <=> h < 2
                /\ result.unit = "seconds" <=> (h >= 2 /\ h < 120)
                /\ result.unit = "minutes" <=> (h >= 120 /\ h < 7200)
                /\ result.unit = "hours" <=> (h >= 7200 /\ h < 172800)
                /\ result.unit = "days" <=> (h >= 172800 /\ h < Year)
                /\ result.unit = "years" <=> h >= Year
                /\ result.unit # "Instant" =>
                      /\ 2 * (result.N * per - h) <= per
                      /\ 2 * (h - result.N * per) <= per
            /\ (e = 1 /\ h >= Year) => result.unit = "thousand years"
            /\ (e = 2 /\ h >= Year) => result.unit = "million years"
            /\ (e = 3 /\ h >= Year) => result.unit = "billion years"
            /\ (e >= 1 /\ h \in {2 * Year, 3 * Year}) => result.N = h \div Year
            /\ tt.seconds = Duration(1, 0) => Is(0, "Instant")
            /\ tt.seconds = Duration(60, 0) => Is(30, "seconds")
            /\ tt.seconds = Duration(240, 0) => Is(2, "minutes")
            /\ tt.seconds = Duration(14400, 0) => Is(2, "hours")
            /\ tt.seconds = Duration(345600, 0) => Is(2, "days")
            /\ tt.seconds = Duration(2 * Year, 0) => Is(2, "years")

C18_Witness ==
    /\ pc = "done_duration"
    /\ tt.seconds = Duration(7199, 0)
    /\ result = [N |-> 60, unit |-> "minutes"]


(***************************************************************************)
(* Claims about the policy registry, checked under SpecRegistry.           *)
(***************************************************************************)
SixNames == {"basic", "corporate", "high-security", "aws", "azure", "pci-dss"}

\* C14: GetPolicy succeeds exactly for basic, corporate, high-security,
\* aws, azure and pci-dss and returns an error with the zero policy for any
\* other name; the basic policy has MinLength 8; ListPolicies returns those
\* six names, each once, in any order.
C14_Registry ==
    /\ pc = "done_getpolicy" =>
          /\ result.err = nil <=> tt.name \in SixNames
          /\ result.err = nil => result.policy = BuiltinPolicies[tt.name]
          /\ result.err # nil => result.policy = ZeroPolicy
          /\ tt.name = "basic" => result.policy.MinLength = 8
    /\ pc = "done_list" =>
          /\ Len(result) = 6
          /\ Chars(result) = SixNames

C14_Witness ==
    /\ pc = "done_getpolicy"
    /\ tt.name = "nonexistent"
    /\ result.err # nil
    /\ result.policy = ZeroPolicy


(***************************************************************************)
(* More claims about main, checked under Spec.                             *)
(***************************************************************************)
\* main looked up a policy name the registry does not hold, and ended
UnknownPolicyAsked ==
    /\ pc = "exit"
    /\ policyTemplate # ""
    /\ GetPolicy(policyTemplate).err # nil

\* C15: an unknown policy name is fatal in the generation path and in the
\* -validate path: the exit status is not 0, no password is generated, no
\* verdict is printed, and standard error holds the error and the list of
\* the valid policy names.
C15_UnknownPolicyFatal ==
    UnknownPolicyAsked =>
        /\ exitCode # 0
        /\ printed = 0
        /\ draws = 0
        /\ verdict = ""
        /\ stderr = <<GetPolicy(policyTemplate).err, "Available policies">>

\* generatePassword has been called
Generating ==
    \/ pc \in {"gen_entry", "gen_loop", "gen_ret", "main_println"}
    \/ printed > 0

\* C16: in the generation flow validateConfig is evaluated on the final
\* config, after the flags and the policy, before the first call of
\* generatePassword: no call is made with a config it rejects, the config
\* no longer changes once it was evaluated, and when it fails the command
\* exits non-zero with no password generated or printed.
C16_ValidatedBeforeGenerating ==
    /\ [](Generating =>
            /\ validateConfig(config) = nil
            /\ policyTemplate # "" => ApplyPolicyToConfig(policy, config) = config)
    /\ []((Validated /\ validateConfig(config) # nil) =>
            /\ pc = "exit"
            /\ exitCode = 1
            /\ printed = 0
            /\ draws = 0
            /\ password = <<>>)
    /\ [][pc \notin {"main_flags", "main_policy"} => config' = config]_vars

C16_Witness ==
    /\ Validated
    /\ policyTemplate = ""
    /\ validateConfig(config) = "at least one character type must be enabled"
    /\ pc = "exit"
    /\ exitCode = 1
    /\ printed = 0


(***************************************************************************)
(* Claims about the configuration sources, checked under SpecConfig.       *)
(***************************************************************************)
\* the settings of the first configuration file found, none without a file
FileSettings ==
    LET found == {x \in 1..Len(configPaths) : tt.fs[configPaths[x]].exists}
    IN  IF found = {} THEN <<>>
        ELSE tt.fs[configPaths[CHOOSE x \in found : \A y \in found : x <= y]].settings

\* what the file or else the default gives a field
FileOrDefault(field) ==
    IF field \in DOMAIN FileSettings THEN FileSettings[field]
    ELSE DefaultConfig[field]

\* what the environment or else a lower source gives the integer and the
\* boolean settings
BelowFlagsInt(name, field) ==
    IF Atoi(tt.env[name]).ok THEN Atoi(tt.env[name]).value
    ELSE FileOrDefault(field)

BelowFlagsBool(name, field) ==
    IF ToLower(tt.env[name]) \in TrueWords THEN TRUE
    ELSE IF ToLower(tt.env[name]) \in FalseWords THEN FALSE
    ELSE FileOrDefault(field)

\* the settings are in effect: main is about to validate and generate
InEffect == pc = "main_validate"

\* C17 for the length and the symbols: flag, else environment, else file,
\* else default
PriorityOfLengthAndSymbols ==
    InEffect =>
        /\ config.Length =
             IF tt.args.length.set THEN tt.args.length.value
             ELSE BelowFlagsInt("PWGEN_LENGTH", "Length")
        /\ config.IncludeSymbols =
             IF tt.args.symbols.set THEN tt.args.symbols.value
             ELSE BelowFlagsBool("PWGEN_INCLUDE_SYMBOLS", "IncludeSymbols")

\* C17: every setting's value in effect follows flag > environment
\* variable > configuration file > default: a higher source that supplies a
\* valid value overrides the lower ones, a lower one is used only without.
C17_SourcePriority ==
    InEffect =>
        /\ config.Length =
             IF tt.args.length.set THEN tt.args.length.value
             ELSE BelowFlagsInt("PWGEN_LENGTH", "Length")
        /\ config.IncludeSymbols =
             IF tt.args.symbols.set THEN tt.args.symbols.value
             ELSE BelowFlagsBool("PWGEN_INCLUDE_SYMBOLS", "IncludeSymbols")
        /\ IF tt.args.count.set \/ tt.args.c.set
           THEN count \in
                  (IF tt.args.count.set THEN {tt.args.count.value} ELSE {})
                    \cup (IF tt.args.c.set THEN {tt.args.c.value} ELSE {})
           ELSE count = BelowFlagsInt("PWGEN_COUNT", "Count")


(***************************************************************************)
(* Claims about the alphabets, checked under SpecGen.                      *)
(***************************************************************************)
\* buildCharset has run on the configuration of the call
Built == pc # "gen_entry"

\* the configuration enables the classes of on and no other
Enables(on) ==
    /\ config.IncludeLower = ("lower" \in on)
    /\ config.IncludeUpper = ("upper" \in on)
    /\ config.IncludeDigits = ("digits" \in on)
    /\ config.IncludeSymbols = ("symbols" \in on)

\* the characters of the charset are pairwise different
Distinct(cs) == Cardinality(Chars(cs)) = Len(cs)

\* the sizes of the alphabets as generation and the entropy model use them,
\* for a size of the symbol alphabet
AlphabetSizes(symbols) ==
    /\ (Built /\ Enables({"lower"}) /\ ~config.ExcludeAmbiguous) =>
          Len(charset) = 26 /\ Distinct(charset)
    /\ (Built /\ Enables({"upper"}) /\ ~config.ExcludeAmbiguous) =>
          Len(charset) = 26 /\ Distinct(charset)
    /\ (Built /\ Enables({"digits"}) /\ ~config.ExcludeAmbiguous) =>
          Len(charset) = 10 /\ Distinct(charset)
    /\ (Built /\ Enables({"symbols"})) =>
          Len(charset) = symbols /\ Distinct(charset)
    /\ (Built /\ Enables({"lower", "upper", "digits", "symbols"})) =>
          Len(charset) =
            26 + 26 + 10 + symbols - (IF config.ExcludeAmbiguous THEN 5 ELSE 0)
    /\ (Returned /\ err = nil /\ Enables({"symbols"})
          /\ DetectorsOf(password) = {}) =>
          \A mapOrder \in MapOrders :
             calculateEntropy(password, mapOrder) = Len(password) * Bits(5)

\* C19 as claimed: the symbol alphabet of generation has exactly 27
\* characters (the entropy model counts 32 for the class, 5 bits a
\* character), lower, upper and digits have 26, 26 and 10, and the
\* ambiguous set has 5.
C19_ClaimedAlphabetSizes == AlphabetSizes(27)

\* C19 amended: the symbol alphabet of generation has exactly 26
\* characters; the entropy model counts 32, lower, upper and digits have
\* 26, 26 and 10, and the ambiguous set has 5.
C19_AlphabetSizes == AlphabetSizes(26)

C19_Witness ==
    /\ Returned
    /\ err = nil
    /\ Enables({"symbols"})
    /\ Len(charset) = 26
    /\ Len(password) = 2
    /\ password[1] # password[2]


(***************************************************************************)
(* Claims about the forbidden characters and patterns, checked under       *)
(* SpecValidate.                                                           *)
(***************************************************************************)
\* the violations of one rule among v, in their order
OfRule(v, rule) == SelectSeq(v, LAMBDA violation : violation.Rule = rule)

\* C21: with a non-empty ForbiddenChars there is exactly one ForbiddenChars
\* violation for each distinct forbidden character that occurs in the
\* password, however often the character occurs in the password or in
\* ForbiddenChars.
C21_OnePerDistinctForbiddenChar ==
    (ValidateDone /\ tt.policy.ForbiddenChars # <<>>) =>
        Len(OfRule(result, "ForbiddenChars")) =
          Cardinality(Chars(tt.policy.ForbiddenChars) \cap Chars(tt.password))

\* the lower case form of an ASCII string, letter by letter
Lowercase(str) ==
    [x \in 1..Len(str) |->
       IF str[x] \in Chars(UpperCase)
       THEN LowerCase[CHOOSE y \in 1..26 : UpperCase[y] = str[x]]
       ELSE str[x]]

\* sub occurs in str at some position
IsSubstring(sub, str) ==
    \E at \in 1..(Len(str) + 1) :
       /\ at + Len(sub) - 1 <= Len(str)
       /\ \A y \in 1..Len(sub) : str[at + y - 1] = sub[y]

\* the patterns of the policy that occur in the password, both in lower
\* case, in the order of the policy
OccurringPatterns ==
    SelectSeq(tt.policy.ForbiddenPatterns,
              LAMBDA pattern :
                 IsSubstring(Lowercase(pattern), Lowercase(tt.password)))

\* C22: the forbidden-pattern check gives one violation for each pattern of
\* the policy whose lower case form is a substring of the lower case
\* password and normalizes no substitution: "P@ssw0rd" gets no
\* ForbiddenPatterns violation for the pattern "password", although
\* hasCommonPatterns is true for it.
C22_ForbiddenPatternsPlain ==
    /\ ValidateDone =>
          /\ Len(OfRule(result, "ForbiddenPatterns")) = Len(OccurringPatterns)
          /\ \A x \in 1..Len(OccurringPatterns) :
                OfRule(result, "ForbiddenPatterns")[x].What = OccurringPatterns[x]
    /\ (ValidateDone /\ tt.password = PASSW0RD /\ tt.policy.ForbiddenPatterns # <<>>
          /\ tt.policy.ForbiddenPatterns[1] = commonPatterns[1]) =>
          /\ OfRule(result, "ForbiddenPatterns") = <<>>
          /\ \A mapOrder \in MapOrders : hasCommonPatterns(PASSW0RD, mapOrder)

\* a pattern in upper case found inside a password, not at its start
C22_Witness ==
    /\ ValidateDone
    /\ tt.password = <<"!", "a", "0">>
    /\ tt.policy.ForbiddenPatterns = << <<"A", "0">>, <<"a">> >>
    /\ Len(OfRule(result, "ForbiddenPatterns")) = 2


(***************************************************************************)
(* Claims about the score and the feedback, checked under SpecStrength.    *)
(***************************************************************************)
Analyzed == pc = "done_analyze"

\* the detectors that fire on the analyzed password (hasCommonPatterns
\* under the map order the call met)
Detected(mapOrder) ==
    [repeated |-> hasRepeatedChars(tt.password),
     sequential |-> hasSequentialChars(tt.password),
     common |-> hasCommonPatterns(tt.password, mapOrder)]

\* the score C23 gives the analyzed password before clamping, from its
\* length, its classes, the detectors and the entropy returned
ClaimedScore(mapOrder) ==
    LET length == Len(tt.password)
        chars == Chars(tt.password)
        lower == chars \cap Chars(LowerCase) # {}
        upper == chars \cap Chars(UpperCase) # {}
        digit == chars \cap Chars(Digits) # {}
        symbol == SymbolsOf(tt.password) # {}
    IN  (CASE length < 8 -> 0
           [] length >= 8 /\ length <= 11 -> 10
           [] length >= 12 /\ length <= 15 -> 20
           [] length >= 16 -> 30)
          + 10 * Cardinality({class \in {"l", "u", "d"} :
                                \/ class = "l" /\ lower
                                \/ class = "u" /\ upper
                                \/ class = "d" /\ digit})
          + (IF symbol THEN 15 ELSE 0)
          + (IF lower /\ upper /\ digit /\ symbol THEN 10 ELSE 0)
          - (IF Detected(mapOrder).repeated THEN 10 ELSE 0)
          - (IF Detected(mapOrder).sequential THEN 15 ELSE 0)
          - (IF Detected(mapOrder).common THEN 20 ELSE 0)
          + (CASE result.Entropy >= Bits(60) -> 20
               [] result.Entropy >= Bits(40) /\ result.Entropy < Bits(60) -> 10
               [] result.Entropy < Bits(25) -> -15
               [] OTHER -> 0)

Clamped(score) == IF score < 0 THEN 0 ELSE IF score > 100 THEN 100 ELSE score

\* C23: the score before clamping is the length points, plus 10 for each of
\* lower case, upper case and digits present, plus 15 for a symbol, plus 10
\* for all four classes, minus 10, 15 and 20 for a repeated run, a
\* sequential run and a common pattern, plus the entropy adjustment; the
\* Score returned is that value clamped to [0,100]; the upper clamp is
\* reached from 105 and the lower one from a negative value.
C23_ScoreFormula ==
    /\ Analyzed =>
          \E mapOrder \in MapOrders :
             /\ result.Entropy = calculateEntropy(tt.password, mapOrder)
             /\ result.Score = Clamped(ClaimedScore(mapOrder))
    /\ (Analyzed /\ tt.password = CAPPING) =>
          \A mapOrder \in MapOrders :
             ClaimedScore(mapOrder) = 105 /\ result.Score = 100
    /\ (Analyzed /\ tt.password = <<>>) =>
          \A mapOrder \in MapOrders :
             ClaimedScore(mapOrder) < 0 /\ result.Score = 0

C23_Witness ==
    /\ Analyzed
    /\ tt.password = CAPPING
    /\ result.Score = 100
    /\ \A mapOrder \in MapOrders : ClaimedScore(mapOrder) = 105


\* the size of the character space C24 gives a password: each class counted
\* once when present
ClaimedSpace(pw) ==
    (IF Chars(pw) \cap Chars(LowerCase) # {} THEN 26 ELSE 0)
      + (IF Chars(pw) \cap Chars(UpperCase) # {} THEN 26 ELSE 0)
      + (IF Chars(pw) \cap Chars(Digits) # {} THEN 10 ELSE 0)
      + (IF SymbolsOf(pw) # {} THEN 32 ELSE 0)

\* the penalty C24 gives a password, in thousandths: the product of 0.8,
\* 0.7 and 0.6 for the detectors that fire
ClaimedPenalty(pw, mapOrder) ==
    CASE DetectorsOf(pw) = {} -> 1000
      [] DetectorsOf(pw) = {"repeated"} -> 800
      [] DetectorsOf(pw) = {"sequential"} -> 700
      [] DetectorsOf(pw) = {"common"} -> 600
      [] DetectorsOf(pw) = {"repeated", "sequential"} -> 560
      [] DetectorsOf(pw) = {"repeated", "common"} -> 480
      [] DetectorsOf(pw) = {"sequential", "common"} -> 420
      [] DetectorsOf(pw) = {"repeated", "sequential", "common"} -> 336

\* len(pw) * log2(S) times the penalty, 0 for the password without a
\* character
ClaimedEntropy(pw, mapOrder) ==
    IF pw = <<>> THEN 0
    ELSE Len(pw) * Log2x1000(ClaimedSpace(pw)) * ClaimedPenalty(pw, mapOrder)

EntropyTested == pc = "done_entropy"

\* C24: calculateEntropy(p) is len(p) * log2(S), S the sum of 26, 26, 10
\* and 32 for the classes present, times 0.8 for a repeated run, 0.7 for a
\* sequential run and 0.6 for a common pattern, the penalties multiplied
\* together, down to 0.336 when all three fire.
C24_EntropyFormula ==
    EntropyTested =>
        \E mapOrder \in MapOrders :
           /\ result.before = ClaimedEntropy(tt.password, mapOrder)
           /\ result.after = ClaimedEntropy(tt.password \o tt.suffix, mapOrder)

\* a password on which all three detectors fire
C24_Witness ==
    /\ EntropyTested
    /\ DetectorsOf(tt.password) = {"repeated", "sequential", "common"}
    /\ ClaimedSpace(tt.password) = 94
    /\ result.before = Len(tt.password) * Log2x1000(94) * 336


Excellent == "Excellent password strength!"

\* the messages of a feedback list
Messages(feedback) == {feedback[x] : x \in 1..Len(feedback)}

\* the analysis accumulates an improvement item for the analyzed password:
\* it is shorter than 12, lacks a class, fires a detector or its entropy is
\* under 25 bits
ImprovementNeeded ==
    \/ Len(tt.password) < 12
    \/ Chars(tt.password) \cap Chars(LowerCase) = {}
    \/ Chars(tt.password) \cap Chars(UpperCase) = {}
    \/ Chars(tt.password) \cap Chars(Digits) = {}
    \/ SymbolsOf(tt.password) = {}
    \/ DetectorsOf(tt.password) # {}
    \/ result.Entropy < Bits(25)

\* C25: "Excellent password strength!" is appended if and only if the
\* clamped score is at least 80 and no other feedback item was accumulated,
\* and it is then the only item of the feedback.
C25_PositiveFeedback ==
    Analyzed =>
        /\ Excellent \in Messages(result.Feedback)
             <=> (result.Score >= 80 /\ ~ImprovementNeeded)
        /\ Excellent \in Messages(result.Feedback) =>
             result.Feedback = <<Excellent>>
        /\ ImprovementNeeded => result.Feedback # <<>>

C25_Witness ==
    /\ Analyzed
    /\ tt.password = SubSeq(CAPPING, 1, 16)
    /\ result.Score >= 80
    /\ result.Feedback = <<Excellent>>

\* C26: the Feedback is never empty: without an improvement item (length
\* at least 12, all four classes, no pattern) the score is 95 or 100 and the
\* positive message is added; so the positive message comes only with the
\* level VeryStrong and a password of level Strong or lower carries an
\* improvement item.
C26_FeedbackNeverEmpty ==
    Analyzed =>
        /\ result.Feedback # <<>>
        /\ ~ImprovementNeeded =>
             /\ result.Score \in {95, 100}
             /\ Excellent \in Messages(result.Feedback)
        /\ Excellent \in Messages(result.Feedback) => result.Level = VeryStrong
        /\ result.Level \in {VeryWeak, Weak, Fair, Good, Strong} =>
             Messages(result.Feedback) \ {Excellent} # {}

\* twelve characters of four classes and no pattern: 95 points
C26_Witness ==
    /\ Analyzed
    /\ tt.password = RX7
    /\ result.Score = 95
    /\ result.Level = VeryStrong
    /\ result.Feedback = <<Excellent>>


(***************************************************************************)
(* Claims about a run under a registry policy, checked under               *)
(* SpecRegistryRun.                                                        *)
(***************************************************************************)
\* the policy has been applied to the configuration of the command line
PolicyApplied ==
    /\ policyTemplate \in DOMAIN BuiltinPolicies
    /\ pc \notin {"main_flags", "main_policy"}

\* C27: for each registry policy and any initial configuration, length 0
\* and no class among them, the configuration passes validateConfig after
\* ApplyPolicyToConfig; a password generated from it has a length within
\* the policy's MinLength and MaxLength and no ambiguous character when the
\* policy excludes them, and ValidatePasswordAgainstPolicy reports neither
\* MinLength nor MaxLength nor ExcludeAmbiguous for it.
C27_RegistryRunValid ==
    /\ PolicyApplied =>
          /\ validateConfig(config) = nil
          /\ \A x \in 1..Len(stderr) :
                stderr[x] \in {"failed to generate random number"}
    /\ (PolicyApplied /\ pc = "gen_ret" /\ err = nil) =>
          /\ Len(password) >= policy.MinLength
          /\ policy.MaxLength > 0 => Len(password) <= policy.MaxLength
          /\ policy.ExcludeAmbiguous =>
                Chars(password) \cap {"0", "O", "1", "l", "I"} = {}
    /\ (PolicyApplied /\ pc = "main_println") =>
          \A x \in 1..Len(violations) :
             violations[x].Rule \notin {"MinLength", "MaxLength", "ExcludeAmbiguous"}

\* -length 129 under aws: 128 characters are generated and validated
C27_Witness ==
    /\ PolicyApplied
    /\ pc = "main_println"
    /\ policyTemplate = "aws"
    /\ Parsed(args.count, 0) = 0
    /\ policy.MaxLength = 128
    /\ Len(password) = 128


(***************************************************************************)
(* C28, checked under SpecGen.                                             *)
(***************************************************************************)
NoIncludeFlag ==
    /\ ~config.IncludeUpper
    /\ ~config.IncludeLower
    /\ ~config.IncludeDigits
    /\ ~config.IncludeSymbols

EmptyAlphabetError ==
    err = "no valid characters available for password generation"

\* validateConfig's check of the character types, taken alone: what it
\* answers for the configuration with a valid length
FailsTypeCheck ==
    validateConfig([config EXCEPT !.Length = 1])
      = "at least one character type must be enabled"

\* C28: buildCharset(config) is empty if and only if no include flag is
\* set, removing the ambiguous characters never empties an alphabet; so a
\* configuration validateConfig accepts is generated without the
\* empty-alphabet error, and the configurations generatePassword rejects
\* for an empty alphabet are those validateConfig's character-type check
\* rejects.
C28_EmptyIffNoFlag ==
    /\ Len(buildCharset(config)) = 0 <=> NoIncludeFlag
    /\ Built => (Len(charset) = 0 <=> NoIncludeFlag)
    /\ (Returned /\ validateConfig(config) = nil) => ~EmptyAlphabetError
    /\ Returned => (EmptyAlphabetError <=> FailsTypeCheck)

\* only digits and without the ambiguous ones: eight characters are left
\* and the password is generated
C28_Witness ==
    /\ Returned
    /\ config.IncludeDigits
    /\ ~config.IncludeUpper /\ ~config.IncludeLower /\ ~config.IncludeSymbols
    /\ config.ExcludeAmbiguous
    /\ Len(charset) = 8
    /\ err = nil
    /\ Len(password) = MaxLen


(***************************************************************************)
(* C29 and C30, checked under SpecStrength.                                *)
(***************************************************************************)
CommonTested == pc = "done_common"

\* the order of the map literal
LiteralOrder == [x \in 1..Len(substitutions) |-> x]

\* C29: hasCommonPatterns(p) does not depend on the order in which the six
\* substitutions are applied: under any order of the map it gives what
\* the order of the literal gives, and so do calculateEntropy,
\* AnalyzePasswordStrength and the MinEntropy check (of the basic policy).
C29_OrderIndependent ==
    CommonTested =>
        /\ result = hasCommonPatterns(tt.password, LiteralOrder)
        /\ calculateEntropy(tt.password, tt.mapOrder)
             = calculateEntropy(tt.password, LiteralOrder)
        /\ AnalyzePasswordStrength(tt.password, tt.mapOrder)
             = AnalyzePasswordStrength(tt.password, LiteralOrder)
        /\ ValidatePasswordAgainstPolicy(tt.password, BuiltinPolicies["basic"],
                                         tt.mapOrder)
             = ValidatePasswordAgainstPolicy(tt.password,
                                             BuiltinPolicies["basic"],
                                             LiteralOrder)

\* three different substitutions, applied in the reverse of the literal's
\* order, find the pattern
C29_Witness ==
    /\ CommonTested
    /\ tt.password = Leet(commonPatterns[11])
    /\ Cardinality(Chars(tt.password) \cap {"@", "3", "1", "0", "5", "7"}) >= 3
    /\ tt.mapOrder = [x \in 1..6 |-> 7 - x]
    /\ result = TRUE


SequentialTested == pc = "done_sequential"

\* the runs C30 names: a-z, 0-9 and the three rows of the keyboard
ClaimedRuns ==
    {LowerCase, Digits,
     <<"q", "w", "e", "r", "t", "y", "u", "i", "o", "p">>,
     <<"a", "s", "d", "f", "g", "h", "j", "k", "l">>,
     <<"z", "x", "c", "v", "b", "n", "m">>}

\* the three characters w are next to each other in a run, forward or
\* backward
ContiguousIn(w, run) ==
    \E at \in 1..(Len(run) - 2) :
       \/ w = <<run[at], run[at + 1], run[at + 2]>>
       \/ w = <<run[at + 2], run[at + 1], run[at]>>

\* some window of three characters of the lower case password is a run
HasRunWindow(pw) ==
    \E at \in 1..(Len(pw) - 2) :
       \E run \in ClaimedRuns :
          ContiguousIn(SubSeq(Lowercase(pw), at, at + 2), run)

\* C30: hasSequentialChars is case-insensitive: it gives a password what it
\* gives its lower case form, so "aBc" and "QwE" are detected, and the
\* result is true exactly when some window of three characters of the
\* lower case password is a forward or reversed contiguous run of a-z, 0-9
\* or a keyboard row (the upper case entries of the list add nothing).
C30_SequentialIgnoresCase ==
    SequentialTested =>
        /\ result = hasSequentialChars(Lowercase(tt.password))
        /\ result = HasRunWindow(tt.password)
        /\ tt.password \in {<<"a", "B", "c">>, <<"Q", "w", "E">>} => result

C30_Witness ==
    /\ SequentialTested
    /\ tt.password = <<"Q", "w", "E">>
    /\ result = TRUE

=============================================================================
